---- MODULE Spec2Model ----
(***************************************************************************)
(* A model of wgpu-mc's chunk meshing and chunk buffer allocation:         *)
(*   - BlockstateKey::pack / From<u32>          (mc/block.rs)              *)
(*   - bake_layer, get_block, is_block_not_fully_opaque (mc/chunk.rs)      *)
(*   - Chunk::bake_chunk over the shared RangeAllocator (mc/chunk.rs)      *)
(*                                                                         *)
(* The chunk dimensions and the allocator size are scaled down; the        *)
(* arithmetic of the traversal is kept as the code writes it.              *)
(***************************************************************************)
EXTENDS Integers, Sequences, FiniteSets, TLC

\* ------------------------------------------------------------------------
\* Dimensions (mc/chunk.rs:30-38), scaled down.
\* The code derives CHUNK_SECTIONS_PER from CHUNK_HEIGHT / CHUNK_SECTION_HEIGHT;
\* here the height is derived from the section count so that every scaling
\* keeps the height a multiple of the section height, as 384 is of 16.
\* ------------------------------------------------------------------------
CHUNK_WIDTH == 2
CHUNK_SECTION_HEIGHT == 2
CHUNK_SECTIONS_PER == 2
CHUNK_AREA == CHUNK_WIDTH * CHUNK_WIDTH
CHUNK_HEIGHT == CHUNK_SECTION_HEIGHT * CHUNK_SECTIONS_PER
CHUNK_VOLUME == CHUNK_AREA * CHUNK_HEIGHT
SECTION_VOLUME == CHUNK_AREA * CHUNK_SECTION_HEIGHT
CHUNK_ALLOCATOR_SIZE == 50

\* size_of::<Vertex>() (mc/chunk.rs:132), in bytes of the scaled buffer
SizeOfVertex == 1

\* bake_chunk is called at most this many times in one run
MaxBakes == 2

Threads == {"t1", "t2"}
Chunks == {1, 2}

\* Chunk::pos of the two chunks: neighbours along x
ChunkPosOf(c) == <<c - 1, 0>>

\* ------------------------------------------------------------------------
\* BlockstateKey (mc/block.rs:19-46)
\* ------------------------------------------------------------------------
\* A u16 is a number below 2^16.  A u32 is its 32 bits, least significant
\* first, since TLC's integers stop short of 2^32.
U16 == 65536
BITS32 == 32

RECURSIVE ToBits(_, _)
ToBits(n, width) ==
    IF width = 0 THEN <<>> ELSE <<n % 2>> \o ToBits(n \div 2, width - 1)

RECURSIVE FromBits(_)
FromBits(bits) ==
    IF bits = <<>> THEN 0 ELSE Head(bits) + 2 * FromBits(Tail(bits))

\* `x as u32` of a u16
AsU32(n) == ToBits(n, BITS32)

\* `x as u16` of a u32: the low 16 bits
AsU16(bits) == FromBits(SubSeq(bits, 1, 16))

\* u32 << n: the bits shifted out at the top are lost
Shl32(bits, n) == [i \in 1..BITS32 |-> IF i <= n THEN 0 ELSE bits[i - n]]

\* u32 >> n
Shr32(bits, n) == [i \in 1..BITS32 |-> IF i + n <= BITS32 THEN bits[i + n] ELSE 0]

BitOr(a, b) == [i \in 1..BITS32 |-> IF a[i] = 1 \/ b[i] = 1 THEN 1 ELSE 0]

BitAnd(a, b) == [i \in 1..BITS32 |-> IF a[i] = 1 /\ b[i] = 1 THEN 1 ELSE 0]

BlockstateKey(block, augment) == [block |-> block, augment |-> augment]

packShift8(key) == BitOr(Shl32(AsU32(key.block), 8), AsU32(key.augment))

\* ((self.block as u32) << 16) | (self.augment as u32)
pack(key) == BitOr(Shl32(AsU32(key.block), 16), AsU32(key.augment))

\* impl From<(u16, u16)>
FromTuple(tuple) == BlockstateKey(tuple[1], tuple[2])

\* impl From<u32>: ((int >> 16) as u16, (int & 0xffff) as u16)
FromU32(int) ==
    FromTuple(<<AsU16(Shr32(int, 16)), AsU16(BitAnd(int, AsU32(65535)))>>)

\* ------------------------------------------------------------------------
\* ChunkBlockState (mc/block.rs:49-59)
\* ------------------------------------------------------------------------
Air == [tag |-> "Air"]
State(key) == [tag |-> "State", key |-> key]
is_air(s) == s.tag = "Air"

\* ------------------------------------------------------------------------
\* The block manager's content: one ModelMesh per block index.  models[0]
\* is (CubeOrComplexMesh, bool); the bool is true when the block does not
\* fully obscure its neighbours.  An element is the set of faces it has.
\* ------------------------------------------------------------------------
FaceOrder == <<"north", "east", "south", "west", "up", "down">>
AllFaces == {"north", "east", "south", "west", "up", "down"}

BlockTable ==
    << [kind |-> "Cube",    transparent |-> FALSE, elements |-> <<AllFaces>>],
       [kind |-> "Cube",    transparent |-> TRUE,  elements |-> <<AllFaces>>],
       [kind |-> "Complex", transparent |-> TRUE,  elements |-> <<{"up"}>>],
       [kind |-> "Complex", transparent |-> TRUE,  elements |-> <<{"up", "north"}, {"down"}>>] >>

STONE == 0
GLASS == 1
SLAB == 2
TORCH == 3
\* an index past the end of BlockManager::blocks
UNKNOWN == 4

None == [none |-> TRUE]

\* IndexMap::get_index
get_index(i) == IF i >= 0 /\ i < Len(BlockTable) THEN BlockTable[i + 1] ELSE None

get_block(state) ==
    IF is_air(state) THEN None ELSE get_index(state.key.block)

\* ------------------------------------------------------------------------
\* The block state source (trait BlockStateProvider).  A world is described
\* by one focus voxel, its six neighbours, a background state for every
\* other position, and the per-section empty flags.
\* ------------------------------------------------------------------------
Offset(dir) ==
    CASE dir = "east"  -> <<1, 0, 0>>
      [] dir = "west"  -> <<-1, 0, 0>>
      [] dir = "up"    -> <<0, 1, 0>>
      [] dir = "down"  -> <<0, -1, 0>>
      [] dir = "south" -> <<0, 0, 1>>
      [] dir = "north" -> <<0, 0, -1>>

Add3(p, q) == <<p[1] + q[1], p[2] + q[2], p[3] + q[3]>>

get_state(w, x, y, z) ==
    IF <<x, y, z>> = w.focus THEN w.center
    ELSE IF \E d \in AllFaces : <<x, y, z>> = Add3(w.focus, Offset(d))
         THEN w.nb[CHOOSE d \in AllFaces : <<x, y, z>> = Add3(w.focus, Offset(d))]
         ELSE w.bg

is_section_empty(w, index) == w.empty[index]

\* ------------------------------------------------------------------------
\* Render layers (trait RenderLayer): name and filter.  "all" is the JNI
\* TerrainLayer; "cutout" accepts only the torch block.
\* ------------------------------------------------------------------------
Layers == <<"all", "cutout">>
LayerNames == {Layers[i] : i \in 1..Len(Layers)}

filter(layer, key) ==
    IF layer = "all" THEN TRUE ELSE key.block = TORCH

\* mapper(v, x, y, z): the block-local vertex moved to the voxel's position
mapper(v, x, y, z) == [v |-> v, x |-> x, y |-> y, z |-> z]

\* ------------------------------------------------------------------------
\* bake_layer (mc/chunk.rs:182-300)
\* ------------------------------------------------------------------------

\* the four vertices of one face of one element of a block's model
FaceVerts(block, el, face) ==
    [i \in 1..4 |-> [block |-> block, el |-> el, face |-> face, corner |-> i]]

RECURSIVE Concat(_)
Concat(seqs) == IF seqs = <<>> THEN <<>> ELSE Head(seqs) \o Concat(Tail(seqs))

is_block_not_fully_opaque(w, x, y, z) ==
    LET state == get_block(get_state(w, x, y, z))
    IN  IF state = None THEN TRUE ELSE state.transparent

\* the coordinates handed to baked_should_render_face, in call order
NeighbourLookups(ax, y, az) ==
    << <<ax + 1, y, az>>, <<ax - 1, y, az>>, <<ax, y + 1, az>>,
       <<ax, y - 1, az>>, <<ax, y, az + 1>>, <<ax, y, az - 1>> >>

\* the vertices of the present faces of every element for which `show` is
\* true, each passed through the mapper, in the order north, east, south,
\* west, up, down
EmitFaces(block, mesh, show, x, y, z) ==
    Concat([e \in 1..Len(mesh.elements) |->
        Concat([f \in 1..6 |->
            IF FaceOrder[f] \in mesh.elements[e] /\ show[FaceOrder[f]]
            THEN [i \in 1..4 |-> mapper(FaceVerts(block, e, FaceOrder[f])[i], x, y, z)]
            ELSE <<>>])])

ShowAll == [d \in AllFaces |-> TRUE]

CubeEmitNoCulling(block, mesh, render, x, y, z) ==
    EmitFaces(block, mesh, ShowAll, x, y, z)

\* CubeOrComplexMesh::Cube arm: the six render_* flags are computed and the
\* six `if render_*` bodies are empty
CubeEmit(block, mesh, render, x, y, z) == <<>>

ComplexEmitCulled(block, mesh, render, x, y, z) ==
    EmitFaces(block, mesh, render, x, y, z)

\* CubeOrComplexMesh::Complex arm: every present face of every element,
\* whatever the neighbours are
ComplexEmit(block, mesh, render, x, y, z) ==
    EmitFaces(block, mesh, ShowAll, x, y, z)

SectionIndexByRemainder(y) == y % CHUNK_SECTION_HEIGHT

\* let section_index = y as usize / CHUNK_SECTION_HEIGHT
SectionIndex(y) == y \div CHUNK_SECTION_HEIGHT

SectionSkipOneLayer(block_index) == block_index + CHUNK_AREA

\* block_index += CHUNK_SECTION_HEIGHT * CHUNK_AREA
SectionSkip(block_index) == block_index + CHUNK_SECTION_HEIGHT * CHUNK_AREA

\* get_block(..).unwrap() panics on None
UnwrapPanics(mesh) == mesh = None

\* a layer that takes every voxel that is not air
FilterRejectsNothing(layer, state_key) == FALSE

\* if !filter(state_key) { continue; }
FilterRejects(layer, state_key) == ~filter(layer, state_key)

BakeStart ==
    [block_index |-> 0, vertices |-> <<>>, visited |-> <<>>, asked |-> <<>>,
     neighbour_queries |-> {}, panicked |-> FALSE]

\* One iteration of the loop (lines 200-297); a finished or panicked run is
\* left as it is.  Besides the vertices the run records what the state source
\* was asked: `visited` the chunk-local positions whose state the traversal
\* read (line 222), `asked` the section indexes given to is_section_empty,
\* `neighbour_queries` the absolute coordinates read by the neighbour lookups
\* (lines 247-252).
BakeStep(pos, layer, w, st) ==
    IF st.panicked \/ st.block_index >= CHUNK_VOLUME THEN st
    ELSE
      LET block_index == st.block_index
          x == block_index % CHUNK_WIDTH
          y == block_index \div CHUNK_AREA
          z == (block_index % CHUNK_AREA) \div CHUNK_WIDTH
          at_section_start == x = 0 /\ z = 0 /\ (y % CHUNK_SECTION_HEIGHT) = 0
          section_index == SectionIndex(y)
          asked == IF at_section_start THEN Append(st.asked, section_index) ELSE st.asked
      IN
      IF at_section_start /\ is_section_empty(w, section_index)
      THEN [st EXCEPT !.block_index = SectionSkip(block_index), !.asked = asked]
      ELSE
        LET absolute_x == (pos[1] * CHUNK_WIDTH) + x
            absolute_z == (pos[2] * CHUNK_WIDTH) + z
            block_state == get_state(w, absolute_x, y, absolute_z)
            st1 == [st EXCEPT !.block_index = block_index + 1, !.asked = asked,
                              !.visited = Append(st.visited, <<x, y, z>>)]
        IN
        IF is_air(block_state) THEN st1
        ELSE IF FilterRejects(layer, block_state.key) THEN st1
        ELSE
          LET mesh == get_block(block_state)
              lookups == NeighbourLookups(absolute_x, y, absolute_z)
              render == [d \in AllFaces |->
                            CASE d = "east"  -> is_block_not_fully_opaque(w, absolute_x + 1, y, absolute_z)
                              [] d = "west"  -> is_block_not_fully_opaque(w, absolute_x - 1, y, absolute_z)
                              [] d = "up"    -> is_block_not_fully_opaque(w, absolute_x, y + 1, absolute_z)
                              [] d = "down"  -> is_block_not_fully_opaque(w, absolute_x, y - 1, absolute_z)
                              [] d = "south" -> is_block_not_fully_opaque(w, absolute_x, y, absolute_z + 1)
                              [] d = "north" -> is_block_not_fully_opaque(w, absolute_x, y, absolute_z - 1)]
          IN
          IF UnwrapPanics(mesh)
          THEN [st1 EXCEPT !.panicked = TRUE]
          ELSE IF mesh = None
          THEN st1
          ELSE IF mesh.kind = "Cube"
          THEN [st1 EXCEPT !.vertices = @ \o CubeEmit(block_state.key.block, mesh, render, x, y, z),
                           !.neighbour_queries = @ \cup {lookups[i] : i \in 1..6}]
          ELSE [st1 EXCEPT !.vertices = @ \o ComplexEmit(block_state.key.block, mesh, render, x, y, z)]

\* n iterations of the loop from st on
RECURSIVE BakeLoop(_, _, _, _, _)
BakeLoop(pos, layer, w, st, n) ==
    IF n = 0 THEN st
    ELSE IF n = 1 THEN BakeStep(pos, layer, w, st)
    ELSE LET half == BakeLoop(pos, layer, w, st, n \div 2)
         IN  IF half.panicked \/ half.block_index >= CHUNK_VOLUME THEN half
             ELSE BakeLoop(pos, layer, w, half, n - (n \div 2))

\* the loop runs until block_index >= CHUNK_VOLUME; every iteration advances
\* block_index, so CHUNK_VOLUME iterations reach the end
bake_layer(pos, layer, w) == BakeLoop(pos, layer, w, BakeStart, CHUNK_VOLUME)

\* ------------------------------------------------------------------------
\* Block model resolution: recurse_model_parents, resolve_model and the
\* head of ModelMesh::bake (mc/block.rs:89-146, 211-235)
\* ------------------------------------------------------------------------
\* A texture value is a texture name or, written "#name", a reference to
\* the texture variable `name`.
Lit(name) == [ref |-> FALSE, name |-> name]
Ref(name) == [ref |-> TRUE, name |-> name]
Some(v) == [some |-> v]

\* Texture::resolve: the value the referenced variable has in
\* `substitutions`, one step, or None
TextureResolve(texture, substitutions) ==
    IF texture.ref /\ texture.name \in DOMAIN substitutions
    THEN Some(substitutions[texture.name])
    ELSE None

\* Textures::resolve: every reference that `other` defines is replaced
TexturesResolve(self, other) ==
    [k \in DOMAIN self |->
        IF TextureResolve(self[k], other) # None
        THEN TextureResolve(self[k], other).some
        ELSE self[k]]

\* Textures::merge: the entries of `other` are inserted over those of `self`
TexturesMerge(self, other) ==
    [k \in (DOMAIN self) \cup (DOMAIN other) |->
        IF k \in DOMAIN other THEN other[k] ELSE self[k]]

NoTextures == [k \in {} |-> Lit("")]

\* ModelResolver::resolve_textures: the models are taken in the order given,
\* child first; a model given earlier keeps its entries over a later one
RECURSIVE ResolveTexturesFrom(_, _)
ResolveTexturesFrom(models, textures) ==
    IF models = <<>> THEN textures
    ELSE LET parent_textures == TexturesResolve(Head(models).textures, textures)
             child_textures == TexturesResolve(textures, parent_textures)
         IN  ResolveTexturesFrom(Tail(models),
                                 TexturesMerge(parent_textures, child_textures))

\* schemas::Model: `elements` is None or Some(the list of elements)
ModelOf(parent, textures, elements) ==
    [parent |-> parent, textures |-> textures, elements |-> elements]

\* a model file that declares no elements
Model(parent, textures) == ModelOf(parent, textures, None)

\* ModelResolver::resolve_elements: the elements of the first of the models,
\* in the order given, that declares any
RECURSIVE ResolveElementsFrom(_)
ResolveElementsFrom(models) ==
    IF models = <<>> THEN None
    ELSE IF Head(models).elements # None THEN Head(models).elements
    ELSE ResolveElementsFrom(Tail(models))

\* ModelResolver::resolve_model
ModelResolverResolve(models) ==
    ModelOf(None, ResolveTexturesFrom(models, NoTextures), ResolveElementsFrom(models))

\* what the resource provider has under a path
Missing == [file |-> "missing"]
Malformed == [file |-> "malformed"]
Json(model) == [file |-> "json", model |-> model]

\* ResourcePath::from(name).prepend("models/").append(".json")
ModelPath(name) == <<"models/", name, ".json">>

\* ResourceProvider::get_string
get_string(pk, path) == IF pk[path].file = "missing" THEN None ELSE Some(pk[path])

\* serde_json::from_str
from_str(content) ==
    IF content.file = "malformed" THEN [ok |-> FALSE, model |-> Model(None, NoTextures)]
    ELSE [ok |-> TRUE, model |-> content.model]

\* the parents' paths, the most distant ancestor first; panicked when a
\* parent file is missing (expect) or does not parse (unwrap)
RECURSIVE recurse_model_parents(_, _, _)
recurse_model_parents(model, pk, models) ==
    IF model.parent = None THEN [panicked |-> FALSE, models |-> models]
    ELSE LET parent_path == ModelPath(model.parent.some)
             content == get_string(pk, parent_path)
         IN  IF content = None \/ ~from_str(content.some).ok
             THEN [panicked |-> TRUE, models |-> models]
             ELSE LET r == recurse_model_parents(from_str(content.some).model, pk, models)
                  IN  IF r.panicked THEN r
                      ELSE [panicked |-> FALSE, models |-> Append(r.models, parent_path)]

resolve_model(model, pk) ==
    IF model.parent = None THEN [panicked |-> FALSE, model |-> model]
    ELSE LET r == recurse_model_parents(model, pk, <<>>)
         IN  IF r.panicked THEN [panicked |-> TRUE, model |-> model]
             ELSE LET parents == [i \in 1..Len(r.models) |->
                                     from_str(get_string(pk, r.models[i]).some).model]
                      schema == ModelResolverResolve(<<model>> \o parents)
                      copy == schema.textures
                  IN  IF \E k \in DOMAIN copy :
                             copy[k].ref /\ TextureResolve(copy[k], copy) = None
                      THEN [panicked |-> TRUE, model |-> schema]
                      ELSE [panicked |-> FALSE,
                            model |-> [schema EXCEPT !.textures =
                                [k \in DOMAIN copy |->
                                    IF copy[k].ref
                                    THEN TextureResolve(copy[k], copy).some
                                    ELSE copy[k]]]]

\* ------------------------------------------------------------------------
\* The body of ModelMesh::bake: the atlas and the faces of one element
\* (mc/block.rs:148-187, 237-383)
\* ------------------------------------------------------------------------
\* schemas::models::ElementFace and Element; `faces` maps the directions the
\* element declares to their ElementFace, `uv` is None or Some([f32; 4])
ElementFace(texture, uv, tint_index) ==
    [texture |-> texture, uv |-> uv, tint_index |-> tint_index]
Element(from, to, faces) == [from |-> from, to |-> to, faces |-> faces]

\* path.prepend("textures/").append(".png")
TexturePath(name) == <<"textures/", name, ".png">>

\* ResourceProvider::get_bytes
get_bytes(pk, path) ==
    IF path \in DOMAIN pk /\ pk[path].file # "missing" THEN Some(pk[path]) ELSE None

\* the rectangle Atlas::allocate gives a texture: one 16x16 tile per name
UVOf(name) ==
    CASE name = "stone" -> << <<16, 0>>, <<32, 16>> >>
      [] name = "dirt"  -> << <<32, 0>>, <<48, 16>> >>
      [] OTHER          -> << <<48, 0>>, <<64, 16>> >>

\* Atlas::allocate: every texture of the batch has a rectangle afterwards
AtlasAllocate(block_atlas, names) ==
    [block_atlas EXCEPT !.uv_map =
        [n \in (DOMAIN @) \cup names |-> IF n \in DOMAIN @ THEN @[n] ELSE UVOf(n)]]

\* the textures of the model that the atlas has no rectangle for
unallocated_textures(textures, block_atlas) ==
    {textures[k].name : k \in DOMAIN textures} \ DOMAIN block_atlas.uv_map

\* get_atlas_uv: the rectangle of the face's texture, a reference being
\* looked up once in the model's textures
get_atlas_uv(face, block_atlas, textures) ==
    LET texture_path ==
            IF ~face.texture.ref THEN Some(face.texture)
            ELSE TextureResolve(face.texture, textures)
    IN  IF texture_path = None THEN None
        ELSE IF ~texture_path.some.ref
                /\ texture_path.some.name \in DOMAIN block_atlas.uv_map
        THEN Some(block_atlas.uv_map[texture_path.some.name])
        ELSE None

\* the closure tex_map: (UV, animation offset, tint index) of a declared face
tex_map(tex, block_atlas, textures) ==
    LET uv == get_atlas_uv(tex, block_atlas, textures)
        tex_uv == IF tex.uv = None THEN <<0, 0, 16, 16>> ELSE tex.uv.some
    IN  IF uv = None THEN None
        ELSE Some([uv |-> << <<uv.some[1][1] + tex_uv[1], uv.some[1][2] + tex_uv[2]>>,
                             <<uv.some[1][1] + tex_uv[3], uv.some[1][2] + tex_uv[4]>> >>,
                   offset |-> IF ~tex.texture.ref
                                 /\ tex.texture.name \in DOMAIN block_atlas.animated_texture_offsets
                              THEN block_atlas.animated_texture_offsets[tex.texture.name]
                              ELSE 0,
                   tint_index |-> tex.tint_index])

\* a placeholder that is the first tile of the atlas
FirstTileUV == [uv |-> << <<0, 0>>, <<16, 16>> >>, offset |-> 0, tint_index |-> -1]

\* const NO_UV: (UV, u32, i32) = (((0, 0), (0, 0)), 0, -1)
NO_UV == [uv |-> << <<0, 0>>, <<0, 0>> >>, offset |-> 0, tint_index |-> -1]

\* element.faces.get(direction).and_then(tex_map)
FaceOf(element, dir, block_atlas, textures) ==
    IF dir \in DOMAIN element.faces
    THEN tex_map(element.faces[dir], block_atlas, textures)
    ELSE None

unwrap_or(option, default) == IF option = None THEN default ELSE option.some

\* the eight corners a..h, in sixteenths of the block: x is mirrored
Corners(element) ==
    [a |-> <<16 - element.from[1], element.from[2], element.from[3]>>,
     b |-> <<16 - element.to[1],   element.from[2], element.from[3]>>,
     c |-> <<16 - element.to[1],   element.to[2],   element.from[3]>>,
     d |-> <<16 - element.from[1], element.to[2],   element.from[3]>>,
     e |-> <<16 - element.from[1], element.from[2], element.to[3]>>,
     f |-> <<16 - element.to[1],   element.from[2], element.to[3]>>,
     g |-> <<16 - element.to[1],   element.to[2],   element.to[3]>>,
     h |-> <<16 - element.from[1], element.to[2],   element.to[3]>>]

\* BlockMeshVertex; s and t say which of the rectangle's two corners gives
\* the first and the second texture coordinate
BlockMeshVertex(position, face, s, t, normal) ==
    [position |-> position,
     tex_coords |-> <<face.uv[s][1], face.uv[t][2]>>,
     normal |-> normal,
     animation_uv_offset |-> face.offset]

\* a face that is reported whether or not it has a texture
FaceAlwaysPresent(option, vert_index) ==
    Some([vert_index |-> vert_index, tint_index |-> unwrap_or(option, NO_UV).tint_index])

\* Option<Face>: south.map(|(_, _, tint_index)| Face { vert_index, tint_index })
FaceAt(option, vert_index) ==
    IF option = None THEN None
    ELSE Some([vert_index |-> vert_index, tint_index |-> option.some.tint_index])

\* a test that looks at the element's `from` corner alone
ElementStartsAtOrigin(element) ==
    element.from[1] = 0 /\ element.from[2] = 0 /\ element.from[3] = 0

current_element_is_full_cube(element) ==
    /\ element.from[1] = 0 /\ element.from[2] = 0 /\ element.from[3] = 0
    /\ element.to[1] = 16 /\ element.to[2] = 16 /\ element.to[3] = 16

\* the BlockModelFaces made of one element (lines 297-383)
BlockModelFaces(element, block_atlas, textures) ==
    LET north == FaceOf(element, "north", block_atlas, textures)
        east  == FaceOf(element, "east", block_atlas, textures)
        south == FaceOf(element, "south", block_atlas, textures)
        west  == FaceOf(element, "west", block_atlas, textures)
        up    == FaceOf(element, "up", block_atlas, textures)
        down  == FaceOf(element, "down", block_atlas, textures)
        north_face == unwrap_or(north, NO_UV)
        east_face  == unwrap_or(east, NO_UV)
        south_face == unwrap_or(south, NO_UV)
        west_face  == unwrap_or(west, NO_UV)
        up_face    == unwrap_or(up, NO_UV)
        down_face  == unwrap_or(down, NO_UV)
        p == Corners(element)
    IN  [vertices |->
           << BlockMeshVertex(p.h, south_face, 2, 1, <<0, 0, 1>>),
              BlockMeshVertex(p.g, south_face, 1, 1, <<0, 0, 1>>),
              BlockMeshVertex(p.f, south_face, 1, 2, <<0, 0, 1>>),
              BlockMeshVertex(p.e, south_face, 2, 2, <<0, 0, 1>>),

              BlockMeshVertex(p.f, west_face, 2, 2, <<-1, 0, 0>>),
              BlockMeshVertex(p.g, west_face, 2, 1, <<-1, 0, 0>>),
              BlockMeshVertex(p.c, west_face, 1, 1, <<-1, 0, 0>>),
              BlockMeshVertex(p.b, west_face, 1, 2, <<-1, 0, 0>>),

              BlockMeshVertex(p.a, north_face, 1, 2, <<0, 0, -1>>),
              BlockMeshVertex(p.b, north_face, 2, 2, <<0, 0, -1>>),
              BlockMeshVertex(p.c, north_face, 2, 1, <<0, 0, -1>>),
              BlockMeshVertex(p.d, north_face, 1, 1, <<0, 0, -1>>),

              BlockMeshVertex(p.h, east_face, 1, 1, <<1, 0, 0>>),
              BlockMeshVertex(p.e, east_face, 1, 2, <<1, 0, 0>>),
              BlockMeshVertex(p.a, east_face, 2, 2, <<1, 0, 0>>),
              BlockMeshVertex(p.d, east_face, 2, 1, <<1, 0, 0>>),

              BlockMeshVertex(p.d, up_face, 1, 2, <<0, 1, 0>>),
              BlockMeshVertex(p.c, up_face, 2, 2, <<0, 1, 0>>),
              BlockMeshVertex(p.g, up_face, 2, 1, <<0, 1, 0>>),
              BlockMeshVertex(p.h, up_face, 1, 1, <<0, 1, 0>>),

              BlockMeshVertex(p.e, down_face, 2, 2, <<0, -1, 0>>),
              BlockMeshVertex(p.f, down_face, 1, 2, <<0, -1, 0>>),
              BlockMeshVertex(p.b, down_face, 1, 1, <<0, -1, 0>>),
              BlockMeshVertex(p.a, down_face, 2, 1, <<0, -1, 0>> ) >>,
         south |-> FaceAt(south, 0),
         west  |-> FaceAt(west, 4),
         north |-> FaceAt(north, 8),
         east  |-> FaceAt(east, 12),
         up    |-> FaceAt(up, 16),
         down  |-> FaceAt(down, 20),
         cube  |-> current_element_is_full_cube(element)]

\* Result<ModelMesh, MeshBakeError>, or the panic that ended the call.  Of
\* an Ok result `models` keeps the resolved model of every variant and
\* `atlases` the atlas its faces were looked up in.
BakeOk(models, atlases, mesh, is_cube) ==
    [kind |-> "Ok", err |-> "none", models |-> models, atlases |-> atlases,
     mesh |-> mesh, is_cube |-> is_cube]
BakeErr(err) ==
    [kind |-> "Err", err |-> err, models |-> <<>>, atlases |-> <<>>,
     mesh |-> <<>>, is_cube |-> FALSE]
BakePanic(at) ==
    [kind |-> "panic", err |-> at, models |-> <<>>, atlases |-> <<>>,
     mesh |-> <<>>, is_cube |-> FALSE]

\* `let x = v;` followed by F(x): v is evaluated once and F sees its value
Once(v, F(_)) == CHOOSE y \in {F(x) : x \in {v}} : TRUE

\* the closure ModelMesh::bake maps over its variants: the model is loaded
\* and resolved, its textures are put into the atlas, and every element is
\* made into a BlockModelFaces
BakeVariant(name, pk, block_atlas) ==
    LET model_resource_path == ModelPath(name)
        content == get_string(pk, model_resource_path)
    IN  IF content = None
        THEN [result |-> BakeErr("UnresolvedResourcePath"), atlas |-> block_atlas]
        ELSE IF ~from_str(content.some).ok
        THEN [result |-> BakeErr("JsonError"), atlas |-> block_atlas]
        ELSE Once(resolve_model(from_str(content.some).model, pk), LAMBDA r :
             LET model == r.model
                 missing == unallocated_textures(model.textures, block_atlas)
                 elements == IF model.elements = None THEN <<>> ELSE model.elements.some
             IN  IF r.panicked
                 THEN [result |-> BakePanic("resolve_model"), atlas |-> block_atlas]
                 ELSE IF \E k \in DOMAIN model.textures : model.textures[k].ref
                 THEN [result |-> BakeErr("UnresolvedTextureReference"),
                       atlas |-> block_atlas]
                 ELSE IF \E n \in missing : get_bytes(pk, TexturePath(n)) = None
                 THEN [result |-> BakePanic("get_bytes"), atlas |-> block_atlas]
                 ELSE Once(AtlasAllocate(block_atlas, missing), LAMBDA atlas :
                      Once([i \in 1..Len(elements) |->
                               BlockModelFaces(elements[i], atlas, model.textures)],
                           LAMBDA results :
                      [result |-> BakeOk(<<model>>, <<atlas>>, results,
                                         \A i \in 1..Len(results) : results[i].cube),
                       atlas |-> atlas])))

\* ModelMesh::bake: the variants in order, ended by the first that fails;
\* is_cube is all_elements_are_full_cubes after the last element
RECURSIVE bake(_, _, _)
bake(model_properties, pk, block_atlas) ==
    IF model_properties = <<>>
    THEN [result |-> BakeOk(<<>>, <<>>, <<>>, TRUE), atlas |-> block_atlas]
    ELSE Once(BakeVariant(Head(model_properties), pk, block_atlas), LAMBDA first :
             IF first.result.kind # "Ok" THEN first
             ELSE Once(bake(Tail(model_properties), pk, first.atlas), LAMBDA rest :
                  IF rest.result.kind # "Ok" THEN rest
                  ELSE [result |-> BakeOk(first.result.models \o rest.result.models,
                                          first.result.atlases \o rest.result.atlases,
                                          first.result.mesh \o rest.result.mesh,
                                          first.result.is_cube /\ rest.result.is_cube),
                        atlas |-> rest.atlas]))

\* ------------------------------------------------------------------------
\* State
\* ------------------------------------------------------------------------
VARIABLES
    world,          \* the block state source handed to bake_chunk / bake_layer
    free_ranges,    \* RangeAllocator::free_ranges of ChunkAllocation::allocator
    baked_layers,   \* Chunk::baked_layers of every chunk
    buffer_writes,  \* the queue.write_buffer calls made on the chunk buffer
    th,             \* each worker's position in bake_chunk and its locals
    started,        \* how many bake_chunk calls have been made
    log,            \* how each finished bake_chunk call ended
    meshPc,         \* bake_layer called on its own: "ready" or "done"
    meshArgs,       \* the chunk and layer of that call
    meshResult,     \* what it returned
    keyPc,          \* BlockstateKey round trip: "key", "packed" or "unpacked"
    keyIn,          \* the key
    keyPacked,      \* key.pack()
    keyOut,         \* BlockstateKey::from(packed)
    provider,       \* the resource provider's model files, by path
    modelPc,        \* ModelMesh::bake called on its own: "ready" or "done"
    modelOut,       \* how that call ended
    block_atlas,    \* the block atlas: uv_map and animated_texture_offsets
    model_properties, \* the variants ModelMesh::bake is given
    MATRICES,       \* the static MATRICES of the frame driver
    registry,       \* the Mat4 cells of shader_graph.resources
    graph,          \* the render graph: "Unconfigured" or "Initialized"
    initCalls,      \* how often shader_graph.init was called
    rt,             \* the render thread's position in its loop and its locals
    frames,         \* one entry per wm.render call
    writes,         \* one entry per completed setMatrix call
    surface,        \* window size and the textures made for the surface
    chunk_update_queue, \* WmRenderer::chunk_update_queue
    fl,             \* each submit_chunk_updates caller's position and locals
    gpu_flushed,    \* the writes handed to queue.submit, in order
    pushed,         \* how many writes were pushed onto chunk_update_queue
    texture_handles, \* WmRenderer::texture_handles: name -> the handle's cell
    cells,          \* the ArcSwap cells made so far and the texture each holds
    creations,      \* one entry per create_texture_handle call
    resize          \* the update_surface_size call: position, locals, result

vars == <<world, free_ranges, baked_layers, buffer_writes, th, started, log,
          meshPc, meshArgs, meshResult, keyPc, keyIn, keyPacked, keyOut,
          provider, modelPc, modelOut, block_atlas, model_properties,
          MATRICES, registry, graph, initCalls, rt, frames, writes, surface,
          chunk_update_queue, fl, gpu_flushed, pushed,
          texture_handles, cells, creations, resize>>

chunkVars == <<free_ranges, baked_layers, buffer_writes, th, started, log>>
meshVars == <<meshPc, meshArgs, meshResult>>
keyVars == <<keyPc, keyIn, keyPacked, keyOut>>
modelVars == <<provider, modelPc, modelOut, block_atlas, model_properties>>
frameVars == <<MATRICES, registry, graph, initCalls, rt, frames, writes, surface>>
queueVars == <<chunk_update_queue, fl, gpu_flushed, pushed>>
texVars == <<texture_handles, cells, creations, resize>>

Range(start, end) == [start |-> start, end |-> end]
EmptyMap == [n \in {} |-> Range(0, 0)]

\* no layer has been meshed yet
NoVerts == [n \in {} |-> <<>>]

\* `emitted` keeps, per layer, the vertices bake_layer returned to the call
IdleThread ==
    [pc |-> "idle", chunk |-> 0, idx |-> 0, acc |-> EmptyMap, verts |-> <<>>,
     range |-> Range(0, 0), err |-> "none", solo |-> TRUE, emitted |-> NoVerts]

\* ChunkManager::new and Chunk::new
InitChunks ==
    /\ free_ranges = <<Range(0, CHUNK_ALLOCATOR_SIZE)>>
    /\ baked_layers = [c \in Chunks |-> EmptyMap]
    /\ buffer_writes = {}
    /\ th = [t \in Threads |-> IdleThread]
    /\ started = 0
    /\ log = <<>>

InitMesh ==
    /\ meshPc = "ready"
    /\ meshArgs = [chunk |-> 0, layer |-> "none"]
    /\ meshResult = BakeStart

InitKey ==
    /\ keyPc = "key"
    /\ keyIn = BlockstateKey(0, 0)
    /\ keyPacked = AsU32(0)
    /\ keyOut = BlockstateKey(0, 0)

\* the model names of the resource provider: a model, its parent and its
\* grandparent
ModelNames == {"m", "p", "g"}
ModelPaths == {ModelPath(n) : n \in ModelNames}

\* a provider that has no model file at all
QuietPack == [path \in ModelPaths |-> Missing]

\* Atlas::new: no texture has a rectangle
EmptyAtlas ==
    [uv_map |-> [n \in {} |-> UVOf(n)], animated_texture_offsets |-> [n \in {} |-> 0]]

\* the variants bake is given
Requested == <<"m">>

InitModel ==
    /\ provider = QuietPack
    /\ modelPc = "ready"
    /\ modelOut = BakeOk(<<>>, <<>>, <<>>, TRUE)
    /\ block_atlas = EmptyAtlas
    /\ model_properties = Requested

\* the four matrices, in the order of setMatrix's ids 0..3
MatNames == <<"projection", "model", "view", "terrain_transformation">>
MatNameSet == {MatNames[i] : i \in 1..Len(MatNames)}

\* a matrix is held as MatrixElements of its 16 elements
MatrixElements == 2
Filled(v) == [i \in 1..MatrixElements |-> v]
\* [[0.0; 4]; 4]
Zero == Filled(0)
\* Matrix4::identity()
Identity == [i \in 1..MatrixElements |-> IF i = 1 THEN 1 ELSE 0]

Flushers == {"flush_thread", "caller"}

IdleRenderThread == [pc |-> "unspawned", attempts |-> 0, seen |-> 0]
IdleFlusher == [pc |-> "idle", updates |-> <<>>]

\* the statics and start_rendering's locals before shader_graph.init
InitFrame ==
    /\ MATRICES = [n \in MatNameSet |-> Zero]
    /\ registry = [n \in MatNameSet |-> Identity]
    /\ graph = "Unconfigured"
    /\ initCalls = 0
    /\ rt = IdleRenderThread
    /\ frames = <<>>
    /\ writes = <<>>
    /\ surface = [swaps |-> 0]

\* no update_surface_size call is running; result is what the last call returned
IdleResize(new_size, result) ==
    [pc |-> "idle", new_size |-> new_size, handles |-> [n \in {} |-> 0],
     todo |-> {}, result |-> result]

\* WmRenderer::new; no update_surface_size call has been made
InitQueue ==
    /\ chunk_update_queue = <<>>
    /\ fl = [f \in Flushers |-> IdleFlusher]
    /\ gpu_flushed = <<>>
    /\ pushed = 0
    /\ texture_handles = [n \in {} |-> 0]
    /\ cells = <<>>
    /\ creations = <<>>
    /\ resize = IdleResize([width |-> 0, height |-> 0], None)

\* ------------------------------------------------------------------------
\* The worlds the state source is drawn from
\* ------------------------------------------------------------------------
Key0(block) == BlockstateKey(block, 0)

MeshWorlds ==
    [focus  : {<<0, y, CHUNK_WIDTH - 1>> : y \in 0..CHUNK_SECTION_HEIGHT},
     center : {Air, State(Key0(STONE)), State(Key0(GLASS)), State(Key0(SLAB)),
               State(Key0(TORCH)), State(Key0(UNKNOWN))},
     nb     : [AllFaces -> {Air, State(Key0(STONE))}],
     bg     : {Air, State(Key0(SLAB))},
     empty  : [0..(CHUNK_SECTIONS_PER - 1) -> BOOLEAN]]

\* ------------------------------------------------------------------------
\* bake_layer on its own
\* ------------------------------------------------------------------------
MeshBake ==
    /\ meshPc = "ready"
    /\ \E c \in Chunks, i \in 1..Len(Layers) :
          /\ meshArgs' = [chunk |-> c, layer |-> Layers[i]]
          /\ meshResult' = bake_layer(ChunkPosOf(c), Layers[i], world)
    /\ meshPc' = "done"
    /\ UNCHANGED <<world, chunkVars, keyVars, modelVars, frameVars, queueVars, texVars>>

InitSpecMesh ==
    /\ world \in MeshWorlds
    /\ InitChunks /\ InitMesh /\ InitKey
    /\ InitModel /\ InitFrame /\ InitQueue

NextMesh == MeshBake

SpecMesh == InitSpecMesh /\ [][NextMesh]_vars

\* ------------------------------------------------------------------------
\* BlockstateKey round trip on its own
\* ------------------------------------------------------------------------
KeySamples == {0, 1, 2, 255, 256, 257, 4660, 32767, 32768, 65534, 65535}

KeyPack ==
    /\ keyPc = "key"
    /\ keyPacked' = pack(keyIn)
    /\ keyPc' = "packed"
    /\ UNCHANGED <<world, chunkVars, meshVars, keyIn, keyOut, modelVars, frameVars, queueVars, texVars>>

KeyUnpack ==
    /\ keyPc = "packed"
    /\ keyOut' = FromU32(keyPacked)
    /\ keyPc' = "unpacked"
    /\ UNCHANGED <<world, chunkVars, meshVars, keyIn, keyPacked, modelVars, frameVars, queueVars, texVars>>

QuietWorld ==
    [focus |-> <<0, 0, 0>>, center |-> Air, nb |-> [d \in AllFaces |-> Air],
     bg |-> Air, empty |-> [i \in 0..(CHUNK_SECTIONS_PER - 1) |-> FALSE]]

InitSpecKey ==
    /\ world = QuietWorld
    /\ InitChunks /\ InitMesh
    /\ keyPc = "key"
    /\ keyIn \in [block : KeySamples, augment : KeySamples]
    /\ keyPacked = AsU32(0)
    /\ keyOut = BlockstateKey(0, 0)
    /\ InitModel /\ InitFrame /\ InitQueue

NextKey == KeyPack \/ KeyUnpack

SpecKey == InitSpecKey /\ [][NextKey]_vars

\* ------------------------------------------------------------------------
\* RangeAllocator<usize> (range_alloc crate) as ChunkAllocation uses it
\* ------------------------------------------------------------------------
RangeLen(r) == r.end - r.start

RECURSIVE SumLens(_)
SumLens(ranges) == IF ranges = <<>> THEN 0 ELSE RangeLen(Head(ranges)) + SumLens(Tail(ranges))

\* the allocator's total free capacity
FreeCapacity(free) == SumLens(free)

\* best fit: the first of the smallest free ranges that are long enough
BestFit(free, length) ==
    LET fits == {i \in 1..Len(free) : RangeLen(free[i]) >= length}
    IN  IF fits = {} THEN 0
        ELSE CHOOSE i \in fits :
                \A j \in fits : \/ RangeLen(free[i]) < RangeLen(free[j])
                                \/ (RangeLen(free[i]) = RangeLen(free[j]) /\ i <= j)

RemoveAt(seq, i) == SubSeq(seq, 1, i - 1) \o SubSeq(seq, i + 1, Len(seq))

GrantKeepsFree(free, length) ==
    LET i == BestFit(free, length)
    IN  IF i = 0 THEN [kind |-> "err"]
        ELSE [kind |-> "ok", free |-> free,
              range |-> Range(free[i].start, free[i].start + length)]

\* the range granted out of the best fit, which is shortened or removed
Grant(free, length) ==
    LET i == BestFit(free, length)
    IN  IF i = 0 THEN [kind |-> "err"]
        ELSE [kind |-> "ok",
              free |-> IF RangeLen(free[i]) = length THEN RemoveAt(free, i)
                       ELSE [free EXCEPT ![i].start = @ + length],
              range |-> Range(free[i].start, free[i].start + length)]

\* allocate_range(length): Ok(range) with the new free list, or Err.  A
\* request of length zero trips the crate's length assertion in the versions
\* that have it and is answered like any other request in those that do not.
allocate_range(free, length) ==
    IF length = 0 THEN {[kind |-> "assert"], Grant(free, length)}
    ELSE {Grant(free, length)}

AllocUnwrapSwallowsErr(o) == o.kind = "assert"

\* allocate_range(size).unwrap() panics on Err; the assertion panics by itself
AllocUnwrapPanics(o) == o.kind # "ok"

\* ------------------------------------------------------------------------
\* Chunk::bake_chunk (mc/chunk.rs:112-147), one worker thread per call
\* ------------------------------------------------------------------------
\* a map that keeps every range under the name of the first layer
PutUnderFirstName(map, name, value) ==
    [n \in (DOMAIN map) \cup {Layers[1]} |-> IF n = Layers[1] THEN value ELSE map[n]]

\* (layer.name().into(), range) collected into the HashMap
Put(map, name, value) ==
    [n \in (DOMAIN map) \cup {name} |-> IF n = name THEN value ELSE map[n]]

\* the worlds bake_chunk runs on: the focus voxel sits at the east edge of
\* chunk 1, so that its east neighbour is a voxel of chunk 2
ChunkWorlds ==
    {[focus |-> <<CHUNK_WIDTH - 1, 0, 0>>, center |-> c,
      nb |-> [d \in AllFaces |-> IF d = "east" THEN e ELSE IF d = "up" THEN u ELSE Air],
      bg |-> Air, empty |-> [i \in 0..(CHUNK_SECTIONS_PER - 1) |-> FALSE]] :
        c \in {Air, State(Key0(SLAB)), State(Key0(TORCH)), State(Key0(UNKNOWN))},
        e \in {Air, State(Key0(TORCH))},
        u \in {Air, State(Key0(TORCH))}}

\* the call unwinds: the locals are dropped, baked_layers is not touched, and
\* what the allocator has granted so far stays granted.  `log` keeps, for
\* every call that ended, how it ended, the map it had collected, the free
\* capacity at that moment and whether any other call ran during it (`solo`).
Panicked(t, cause, free) ==
    /\ th' = [th EXCEPT ![t] = IdleThread]
    /\ log' = Append(log, [thread |-> t, chunk |-> th[t].chunk, ok |-> FALSE,
                           err |-> cause, layers |-> th[t].acc,
                           solo |-> th[t].solo, free |-> FreeCapacity(free),
                           emitted |-> th[t].emitted])

StartBake(t, c) ==
    /\ th[t].pc = "idle"
    /\ started < MaxBakes
    /\ started' = started + 1
    /\ th' = [u \in Threads |->
                IF u = t
                THEN [IdleThread EXCEPT !.pc = "mesh", !.chunk = c, !.idx = 1,
                                        !.solo = \A v \in Threads : th[v].pc = "idle"]
                ELSE [th[u] EXCEPT !.solo = (th[u].pc = "idle")]]
    /\ UNCHANGED <<world, free_ranges, baked_layers, buffer_writes, log, meshVars, keyVars, modelVars, frameVars, queueVars, texVars>>

\* let verts = bake_layer(block_manager, self, mapper, filter, provider)
MeshLayer(t) ==
    /\ th[t].pc = "mesh"
    /\ LET r == bake_layer(ChunkPosOf(th[t].chunk), Layers[th[t].idx], world)
       IN  IF r.panicked
           THEN Panicked(t, "unresolved", free_ranges)
           ELSE /\ th' = [th EXCEPT ![t].pc = "alloc", ![t].verts = r.vertices,
                                   ![t].emitted = [n \in (DOMAIN @) \cup {Layers[th[t].idx]} |->
                                       IF n = Layers[th[t].idx] THEN r.vertices ELSE @[n]]]
                /\ UNCHANGED log
    /\ UNCHANGED <<world, free_ranges, baked_layers, buffer_writes, started, meshVars, keyVars, modelVars, frameVars, queueVars, texVars>>

\* the block holding allocator.write(): allocate_range(size).unwrap()
Allocate(t) ==
    /\ th[t].pc = "alloc"
    /\ LET size == Len(th[t].verts) * SizeOfVertex
       IN  \E o \in allocate_range(free_ranges, size) :
              IF AllocUnwrapPanics(o)
              THEN /\ Panicked(t, IF o.kind = "err" THEN "exhausted" ELSE "zero_length",
                               free_ranges)
                   /\ UNCHANGED free_ranges
              ELSE IF o.kind = "ok"
              THEN /\ free_ranges' = o.free
                   /\ th' = [th EXCEPT ![t].pc = "write", ![t].range = o.range]
                   /\ UNCHANGED log
              ELSE /\ th' = [th EXCEPT ![t].pc = "write", ![t].range = Range(0, 0),
                                       ![t].err = "exhausted"]
                   /\ UNCHANGED <<free_ranges, log>>
    /\ UNCHANGED <<world, baked_layers, buffer_writes, started, meshVars, keyVars, modelVars, frameVars, queueVars, texVars>>

\* a write that also records the layer's range in the chunk right away
WriteBufferPublishing(t) ==
    /\ th[t].pc = "write"
    /\ buffer_writes' = buffer_writes \cup
          {[offset |-> th[t].range.start, data |-> th[t].verts]}
    /\ baked_layers' = [baked_layers EXCEPT ![th[t].chunk] =
                            Put(@, Layers[th[t].idx], th[t].range)]
    /\ th' = [th EXCEPT ![t].acc = Put(@, Layers[th[t].idx], th[t].range),
                        ![t].verts = <<>>,
                        ![t].range = Range(0, 0),
                        ![t].idx = @ + 1,
                        ![t].pc = IF th[t].idx = Len(Layers) THEN "install" ELSE "mesh"]
    /\ UNCHANGED <<world, free_ranges, started, log, meshVars, keyVars, modelVars, frameVars, queueVars, texVars>>

\* queue.write_buffer(buffer, range.start, verts), then (layer.name(), range)
\* joins the collected map
WriteBuffer(t) ==
    /\ th[t].pc = "write"
    /\ buffer_writes' = buffer_writes \cup
          {[offset |-> th[t].range.start, data |-> th[t].verts]}
    /\ th' = [th EXCEPT ![t].acc = Put(@, Layers[th[t].idx], th[t].range),
                        ![t].verts = <<>>,
                        ![t].range = Range(0, 0),
                        ![t].idx = @ + 1,
                        ![t].pc = IF th[t].idx = Len(Layers) THEN "install" ELSE "mesh"]
    /\ UNCHANGED <<world, free_ranges, baked_layers, started, log, meshVars, keyVars, modelVars, frameVars, queueVars, texVars>>

\* a store of the collected map that does not wait for the last layer
InstallPartial(t) ==
    /\ th[t].pc \in {"install", "mesh"}
    /\ th[t].idx > 1
    /\ baked_layers' = [baked_layers EXCEPT ![th[t].chunk] = th[t].acc]
    /\ log' = Append(log, [thread |-> t, chunk |-> th[t].chunk, ok |-> TRUE,
                           err |-> th[t].err, layers |-> th[t].acc,
                           solo |-> th[t].solo, free |-> FreeCapacity(free_ranges),
                           emitted |-> th[t].emitted])
    /\ th' = [th EXCEPT ![t] = IdleThread]
    /\ UNCHANGED <<world, free_ranges, buffer_writes, started, meshVars, keyVars, modelVars, frameVars, queueVars, texVars>>

\* *self.baked_layers.write() = baked_layers
Install(t) ==
    /\ th[t].pc = "install"
    /\ baked_layers' = [baked_layers EXCEPT ![th[t].chunk] = th[t].acc]
    /\ log' = Append(log, [thread |-> t, chunk |-> th[t].chunk, ok |-> TRUE,
                           err |-> th[t].err, layers |-> th[t].acc,
                           solo |-> th[t].solo, free |-> FreeCapacity(free_ranges),
                           emitted |-> th[t].emitted])
    /\ th' = [th EXCEPT ![t] = IdleThread]
    /\ UNCHANGED <<world, free_ranges, buffer_writes, started, meshVars, keyVars, modelVars, frameVars, queueVars, texVars>>

Init ==
    /\ world \in ChunkWorlds
    /\ InitChunks /\ InitMesh /\ InitKey
    /\ InitModel /\ InitFrame /\ InitQueue

Next ==
    \/ \E t \in Threads, c \in Chunks : StartBake(t, c)
    \/ \E t \in Threads : MeshLayer(t)
    \/ \E t \in Threads : Allocate(t)
    \/ \E t \in Threads : WriteBuffer(t)
    \/ \E t \in Threads : Install(t)

Spec == Init /\ [][Next]_vars

\* ------------------------------------------------------------------------
\* ModelMesh::bake on its own, over a family of resource providers
\* ------------------------------------------------------------------------
TextureKeys == {"side", "all"}
TextureValues == {Lit("stone"), Lit("dirt"), Ref("all"), Ref("gone")}
TextureMaps(keys) == UNION {[K -> TextureValues] : K \in SUBSET keys}

\* the files a model name can have: none, one that does not parse, or a
\* model with or without the given parent
ModelFiles(parents, keys) ==
    {Missing, Malformed} \cup
    {Json(Model(par, t)) : par \in parents, t \in TextureMaps(keys)}

\* the texture files: every texture a model names has its .png
TextureNames == {"stone", "dirt"}
TextureFilePaths == {TexturePath(n) : n \in TextureNames}
Png == [file |-> "png"]

Providers ==
    {[path \in ModelPaths \cup TextureFilePaths |->
         IF path = ModelPath("m") THEN fm
         ELSE IF path = ModelPath("p") THEN fp
         ELSE IF path = ModelPath("g") THEN fg ELSE Png] :
       fm \in ModelFiles({None, Some("p")}, TextureKeys),
       fp \in ModelFiles({None, Some("g")}, TextureKeys),
       fg \in ModelFiles({None}, {"all"})}

ModelBake ==
    /\ modelPc = "ready"
    /\ \E r \in {bake(model_properties, provider, block_atlas)} :
           /\ modelOut' = r.result
           /\ block_atlas' = r.atlas
    /\ modelPc' = "done"
    /\ UNCHANGED <<world, chunkVars, meshVars, keyVars, provider, model_properties,
                   frameVars, queueVars, texVars>>

InitSpecModel ==
    /\ world = QuietWorld
    /\ InitChunks /\ InitMesh /\ InitKey
    /\ provider \in Providers
    /\ modelPc = "ready"
    /\ modelOut = BakeOk(<<>>, <<>>, <<>>, TRUE)
    /\ block_atlas = EmptyAtlas
    /\ model_properties = Requested
    /\ InitFrame /\ InitQueue

NextModel == ModelBake

SpecModel == InitSpecModel /\ [][NextModel]_vars

\* ------------------------------------------------------------------------
\* ModelMesh::bake over models that declare elements
\* ------------------------------------------------------------------------
FullCubeBox == [from |-> <<0, 0, 0>>, to |-> <<16, 16, 16>>]
SlabBox == [from |-> <<0, 0, 0>>, to |-> <<16, 8, 16>>]

\* every direction declared, textured by the variable "all"
SixFaces == [d \in AllFaces |-> ElementFace(Ref("all"), None, -1)]

\* two directions declared: a tinted face with its own uv, and a face that
\* names its texture itself
TwoFaces ==
    [d \in {"up", "north"} |->
        IF d = "up" THEN ElementFace(Ref("side"), Some(<<0, 0, 8, 8>>), 0)
        ELSE ElementFace(Lit("stone"), None, 1)]

\* three directions declared, two of them with a texture the atlas cannot
\* have: a variable no model defines and a name that is not among the
\* model's textures
LooseFaces ==
    [d \in {"down", "south", "east"} |->
        IF d = "down" THEN ElementFace(Ref("gone"), None, -1)
        ELSE IF d = "south" THEN ElementFace(Lit("lava"), None, 2)
        ELSE ElementFace(Ref("all"), None, -1)]

FaceMaps == {SixFaces, TwoFaces, LooseFaces}
Boxes == {FullCubeBox, SlabBox}
ElementsOf(boxes, maps) == {Element(b.from, b.to, f) : b \in boxes, f \in maps}

\* the element lists of the requested model and of its ancestors
ChildElementLists ==
    {None, Some(<<>>)} \cup {Some(<<e>>) : e \in ElementsOf(Boxes, FaceMaps)}
    \cup {Some(<<e, Element(SlabBox.from, SlabBox.to, TwoFaces)>>) :
              e \in ElementsOf(Boxes, {SixFaces})}
    \cup {Some(<<e, Element(FullCubeBox.from, FullCubeBox.to, LooseFaces)>>) :
              e \in ElementsOf({FullCubeBox}, {SixFaces})}
AncestorElementLists ==
    {None, Some(<<Element(FullCubeBox.from, FullCubeBox.to, SixFaces)>>),
     Some(<<Element(SlabBox.from, SlabBox.to, TwoFaces)>>)}

Textures0 == NoTextures
TexturesAll(v) == [k \in {"all"} |-> Lit(v)]
TexturesBoth(a, b) == [k \in {"all", "side"} |-> IF k = "all" THEN Lit(a) ELSE Lit(b)]

BakeProviders ==
    {[path \in ModelPaths \cup TextureFilePaths |->
         IF path = ModelPath("m") THEN Json(ModelOf(pm, tm, em))
         ELSE IF path = ModelPath("p") THEN Json(ModelOf(pp, tp, ep))
         ELSE IF path = ModelPath("g") THEN Json(ModelOf(None, tg, eg))
         ELSE IF path = TexturePath("dirt") THEN dirt ELSE Png] :
       pm \in {None, Some("p")},
       tm \in {Textures0, TexturesAll("stone"), TexturesBoth("dirt", "stone")},
       em \in ChildElementLists,
       pp \in {None, Some("g")},
       tp \in {Textures0, TexturesAll("dirt")},
       ep \in AncestorElementLists,
       tg \in {TexturesAll("stone"), TexturesBoth("dirt", "dirt")},
       eg \in AncestorElementLists,
       dirt \in {Png, Missing}}

\* the atlas before the call: empty, or holding the animated texture "stone"
Atlases ==
    {EmptyAtlas,
     [uv_map |-> [n \in {"stone"} |-> UVOf(n)],
      animated_texture_offsets |-> [n \in {"stone"} |-> 5]]}

VariantLists == {<<>>, <<"m">>, <<"m", "p">>}

InitSpecBake ==
    /\ world = QuietWorld
    /\ InitChunks /\ InitMesh /\ InitKey
    /\ provider \in BakeProviders
    /\ modelPc = "ready"
    /\ modelOut = BakeOk(<<>>, <<>>, <<>>, TRUE)
    /\ block_atlas \in Atlases
    /\ model_properties \in VariantLists
    /\ InitFrame /\ InitQueue

SpecBake == InitSpecBake /\ [][NextModel]_vars

\* ------------------------------------------------------------------------
\* The frame driver: setMatrix and the render thread of start_rendering
\* (wgpu-mc-jni/src/renderer.rs:102-133, 386-494)
\* ------------------------------------------------------------------------
MaxWrites == 2      \* setMatrix calls
MaxFrames == 3      \* iterations of the render thread's loop

\* the ids setMatrix is called with: 0..3 name a matrix, 4 none
MatrixIds == 0..4

\* the window sizes wgpu_state.size can hold when the surface is outdated
WindowSizes == {[width |-> 0, height |-> 0], [width |-> 1280, height |-> 720]}

\* what the k-th setMatrix call writes: a matrix no other call writes
SliceOfCall(k) == Filled(k + 1)

\* a store that reaches only the first element of the matrix
StoreFirstElement(mats, id, slice_4x4) ==
    IF id \in 0..3
    THEN [mats EXCEPT ![MatNames[id + 1]] =
             [i \in 1..MatrixElements |-> IF i = 1 THEN slice_4x4[1] ELSE @[i]]]
    ELSE mats

\* match id { 0 => MATRICES.lock().projection = slice_4x4, .. , _ => {} }
StoreMatrix(mats, id, slice_4x4) ==
    IF id \in 0..3
    THEN [mats EXCEPT ![MatNames[id + 1]] = slice_4x4]
    ELSE mats

\* a copy that adds each matrix onto what its cell holds
CopyToRegistryAccumulating(reg, mats) ==
    [n \in MatNameSet |-> [i \in 1..MatrixElements |-> reg[n][i] + mats[n][i]]]

\* a copy that fills the view cell from the model matrix
CopyToRegistryViewFromModel(reg, mats) ==
    [reg EXCEPT !["projection"] = mats["projection"],
                !["model"] = mats["model"],
                !["view"] = mats["model"],
                !["terrain_transformation"] = mats["terrain_transformation"]]

\* the block holding MATRICES.lock(): each matrix goes into its Mat4 cell
CopyToRegistry(reg, mats) ==
    [reg EXCEPT !["projection"] = mats["projection"],
                !["model"] = mats["model"],
                !["view"] = mats["view"],
                !["terrain_transformation"] = mats["terrain_transformation"]]

\* WmRenderer::update_surface_size (lib.rs:198-219): None for an empty
\* window, else every registered texture is made anew for the new size
update_surface_size(sf, new_size) ==
    IF new_size.width = 0 \/ new_size.height = 0 THEN None
    ELSE Some([sf EXCEPT !.swaps = @ + 1])

\* the render thread is spawned as soon as it can observe this graph state
SpawnedAnyTime(g) == TRUE

\* start_rendering spawns the render thread after shader_graph.init returned
MaySpawn(g) == g = "Initialized"

SetMatrix(id) ==
    /\ Len(writes) < MaxWrites
    /\ LET slice_4x4 == SliceOfCall(Len(writes) + 1)
       IN  /\ MATRICES' = StoreMatrix(MATRICES, id, slice_4x4)
           /\ writes' = Append(writes, [id |-> id, value |-> slice_4x4,
                                        copies |-> rt.seen,
                                        renders |-> Len(frames)])
    /\ UNCHANGED <<world, chunkVars, meshVars, keyVars, modelVars, queueVars, texVars,
                   registry, graph, initCalls, rt, frames, surface>>

\* shader_graph.init(&wm, Some(&types), Some(geometry_layouts))
ShaderGraphInit ==
    /\ graph = "Unconfigured"
    /\ rt.pc = "unspawned"
    /\ graph' = "Initialized"
    /\ initCalls' = initCalls + 1
    /\ UNCHANGED <<world, chunkVars, meshVars, keyVars, modelVars, queueVars, texVars,
                   MATRICES, registry, rt, frames, writes, surface>>

\* thread::spawn of the render loop
SpawnRenderThread ==
    /\ rt.pc = "unspawned"
    /\ MaySpawn(graph)
    /\ rt' = [rt EXCEPT !.pc = "top"]
    /\ UNCHANGED <<world, chunkVars, meshVars, keyVars, modelVars, queueVars, texVars,
                   MATRICES, registry, graph, initCalls, frames, writes, surface>>

\* top of the loop: MATRICES is locked and copied into the registry
CopyMatrices ==
    /\ rt.pc = "top"
    /\ rt.seen < MaxFrames
    /\ registry' = CopyToRegistry(registry, MATRICES)
    /\ rt' = [rt EXCEPT !.pc = "acquire", !.seen = @ + 1, !.attempts = 0]
    /\ UNCHANGED <<world, chunkVars, meshVars, keyVars, modelVars, queueVars, texVars,
                   MATRICES, graph, initCalls, frames, writes, surface>>

\* surface.get_current_texture()
GetCurrentTexture ==
    /\ rt.pc = "acquire"
    /\ \E ok \in BOOLEAN :
          rt' = [rt EXCEPT !.attempts = 1,
                           !.pc = IF ok THEN "render" ELSE "reconfigure"]
    /\ UNCHANGED <<world, chunkVars, meshVars, keyVars, modelVars, queueVars, texVars,
                   MATRICES, registry, graph, initCalls, frames, writes, surface>>

\* the unwrap_or_else closure: update_surface_size(..).unwrap(),
\* surface.configure, surface.get_current_texture().unwrap()
ReconfigureAndRetry ==
    /\ rt.pc = "reconfigure"
    /\ \E size \in WindowSizes, ok \in BOOLEAN :
          LET new_config == update_surface_size(surface, size)
          IN  IF new_config = None
              THEN /\ rt' = [rt EXCEPT !.pc = "panicked_no_config"]
                   /\ UNCHANGED surface
              ELSE /\ surface' = new_config.some
                   /\ rt' = [rt EXCEPT !.attempts = 2,
                                       !.pc = IF ok THEN "render" ELSE "panicked_retry"]
    /\ UNCHANGED <<world, chunkVars, meshVars, keyVars, modelVars, queueVars, texVars,
                   MATRICES, registry, graph, initCalls, frames, writes>>

\* wm.render(&shader_graph, ..).unwrap(); texture.present()
Render ==
    /\ rt.pc = "render"
    /\ frames' = Append(frames, [copy |-> rt.seen, registry |-> registry,
                                 graph |-> graph, inits |-> initCalls,
                                 swaps |-> surface.swaps,
                                 attempts |-> rt.attempts])
    /\ rt' = [rt EXCEPT !.pc = "top"]
    /\ UNCHANGED <<world, chunkVars, meshVars, keyVars, modelVars, queueVars, texVars,
                   MATRICES, registry, graph, initCalls, writes, surface>>

InitSpecFrame ==
    /\ world = QuietWorld
    /\ InitChunks /\ InitMesh /\ InitKey
    /\ InitModel /\ InitFrame /\ InitQueue

NextFrame ==
    \/ \E id \in MatrixIds : SetMatrix(id)
    \/ ShaderGraphInit
    \/ SpawnRenderThread
    \/ CopyMatrices
    \/ GetCurrentTexture
    \/ ReconfigureAndRetry
    \/ Render

SpecFrame == InitSpecFrame /\ [][NextFrame]_vars

\* ------------------------------------------------------------------------
\* The chunk update queue: WmRenderer::submit_chunk_updates (lib.rs:284-317)
\* and the threads that push onto WmRenderer::chunk_update_queue
\* ------------------------------------------------------------------------
MaxPushes == 3

\* the bytes of a queued write: none, or some
UpdateData == {<<>>, <<7>>}

\* NonZeroU64::new(data.len() as u64).unwrap()
NonZeroUnwrapPanics(data) == Len(data) = 0

\* chunk_staging_belt is locked from lib.rs:301 to the end of the call
BeltHeld == \E f \in Flushers : fl[f].pc = "staged"

\* chunk_update_queue.lock().push((buffer, data)); `id` numbers the pushes
PushUpdate(data) ==
    /\ pushed < MaxPushes
    /\ pushed' = pushed + 1
    /\ chunk_update_queue' =
          Append(chunk_update_queue, [id |-> pushed + 1, data |-> data])
    /\ UNCHANGED <<world, chunkVars, meshVars, keyVars, modelVars, frameVars, texVars,
                   fl, gpu_flushed>>

\* let updates = { std::mem::take(&mut *self.chunk_update_queue.lock()) };
\* if updates.len() == 0 { return; }
TakeUpdates(f) ==
    /\ fl[f].pc = "idle"
    /\ chunk_update_queue' = <<>>
    /\ fl' = [fl EXCEPT ![f] =
                 IF Len(chunk_update_queue) = 0 THEN IdleFlusher
                 ELSE [pc |-> "taken", updates |-> chunk_update_queue]]
    /\ UNCHANGED <<world, chunkVars, meshVars, keyVars, modelVars, frameVars, texVars,
                   gpu_flushed, pushed>>

\* the staging belt is locked and every update is written into it; an
\* update without bytes panics the call, which drops the taken updates
StageUpdates(f) ==
    /\ fl[f].pc = "taken"
    /\ ~BeltHeld
    /\ fl' = [fl EXCEPT ![f] =
                 IF \E i \in 1..Len(fl[f].updates) :
                        NonZeroUnwrapPanics(fl[f].updates[i].data)
                 THEN [pc |-> "panicked", updates |-> <<>>]
                 ELSE [pc |-> "staged", updates |-> fl[f].updates]]
    /\ UNCHANGED <<world, chunkVars, meshVars, keyVars, modelVars, frameVars, texVars,
                   chunk_update_queue, gpu_flushed, pushed>>

\* staging_belt.finish(); queue.submit([encoder.finish()]); recall()
SubmitUpdates(f) ==
    /\ fl[f].pc = "staged"
    /\ gpu_flushed' = gpu_flushed \o fl[f].updates
    /\ fl' = [fl EXCEPT ![f] = IdleFlusher]
    /\ UNCHANGED <<world, chunkVars, meshVars, keyVars, modelVars, frameVars, texVars,
                   chunk_update_queue, pushed>>

InitSpecQueue ==
    /\ world = QuietWorld
    /\ InitChunks /\ InitMesh /\ InitKey
    /\ InitModel /\ InitFrame /\ InitQueue

NextQueue ==
    \/ \E data \in UpdateData : PushUpdate(data)
    \/ \E f \in Flushers : TakeUpdates(f)
    \/ \E f \in Flushers : StageUpdates(f)
    \/ \E f \in Flushers : SubmitUpdates(f)

SpecQueue == InitSpecQueue /\ [][NextQueue]_vars

\* the flush thread loops for ever (renderer.rs:391-399): whenever it can
\* take a step of submit_chunk_updates it takes it; a caller that has taken
\* the updates goes on to the end of its call
FlushFairness ==
    /\ WF_vars(TakeUpdates("flush_thread"))
    /\ WF_vars(StageUpdates("flush_thread"))
    /\ WF_vars(SubmitUpdates("flush_thread"))
    /\ WF_vars(StageUpdates("caller"))
    /\ WF_vars(SubmitUpdates("caller"))

SpecQueueFair == InitSpecQueue /\ [][NextQueue]_vars /\ FlushFairness

\* ------------------------------------------------------------------------
\* WmRenderer::texture_handles (lib.rs): create_texture_handle and
\* update_surface_size.  A TextureHandle is an Arc<ArcSwap<BindableTexture>>:
\* a handle is the index of its cell in cells, a clone of a handle is the
\* same index, and cells[h] is the texture the cell holds now.
\* ------------------------------------------------------------------------
MaxTextures == 4

HandleNames == {"framebuffer", "depth"}
TextureFormats == {"Bgra8Unorm", "Depth32Float"}
SurfaceConfigurations == {[width |-> 1, height |-> 1]}
NewSizes == [width : {0, 2, 4}, height : {0, 3}]

\* TextureSamplerView::from_rgb_bytes(.., &[], Extent3d { width, height, 1 },
\* None, format) wrapped by BindableTexture::from_tsv; id tells two textures
\* of the same format and size apart
BindableTexture(id, format, config) ==
    [id |-> id, format |-> format, width |-> config.width, height |-> config.height]

\* handles.insert(name, handle.clone()): the entry is replaced
InsertAlways(handles, name, handle) ==
    [n \in DOMAIN handles \cup {name} |-> IF n = name THEN handle ELSE handles[n]]

\* handles.entry(name).or_insert(handle.clone()): an existing entry is kept
OrInsert(handles, name, handle) ==
    [n \in DOMAIN handles \cup {name} |->
        IF n \in DOMAIN handles THEN handles[n] ELSE handle]

\* create_texture_handle: a new texture in a new cell; the cell registered
\* under name (the new one only if the name was free) is made to hold the
\* new texture; the new handle is returned
create_texture_handle(handles, cs, name, format, config) ==
    LET handle == Len(cs) + 1
        cs1 == Append(cs, BindableTexture(handle, format, config))
        handles1 == OrInsert(handles, name, handle)
    IN  [texture_handles |-> handles1,
         cells |-> [cs1 EXCEPT ![handles1[name]] = cs1[handle]],
         handle |-> handle]

\* a call of create_texture_handle from outside update_surface_size
CreateTextureHandle(name, format, config) ==
    /\ Len(cells) + Cardinality(resize.todo) < MaxTextures
    /\ LET r == create_texture_handle(texture_handles, cells, name, format, config)
       IN  /\ texture_handles' = r.texture_handles
           /\ cells' = r.cells
           /\ creations' = Append(creations,
                  [name |-> name, handle |-> r.handle,
                   texture |-> r.cells[r.handle], by |-> "caller"])
    /\ UNCHANGED <<world, chunkVars, meshVars, keyVars, modelVars, frameVars,
                   queueVars, resize>>

\* update_surface_size up to the snapshot of texture_handles: a zero width or
\* height returns None at once
UpdateSurfaceSize(new_size) ==
    /\ resize.pc = "idle"
    /\ IF new_size.width = 0 \/ new_size.height = 0
       THEN resize' = IdleResize(new_size, None)
       ELSE /\ Len(cells) + Cardinality(DOMAIN texture_handles) <= MaxTextures
            /\ resize' = [pc |-> "for_each", new_size |-> new_size,
                          handles |-> texture_handles,
                          todo |-> DOMAIN texture_handles, result |-> None]
    /\ UNCHANGED <<world, chunkVars, meshVars, keyVars, modelVars, frameVars,
                   queueVars, texture_handles, cells, creations>>

\* one round of handles.iter().for_each: the texture now in the snapshot
\* handle gives the format, the new size gives the extent
ForEachHandle(name) ==
    /\ resize.pc = "for_each"
    /\ name \in resize.todo
    /\ LET texture == cells[resize.handles[name]]
           r == create_texture_handle(texture_handles, cells, name,
                                      texture.format, resize.new_size)
       IN  /\ texture_handles' = r.texture_handles
           /\ cells' = r.cells
           /\ creations' = Append(creations,
                  [name |-> name, handle |-> r.handle,
                   texture |-> r.cells[r.handle], by |-> "update_surface_size"])
    /\ resize' = [resize EXCEPT !.todo = @ \ {name}]
    /\ UNCHANGED <<world, chunkVars, meshVars, keyVars, modelVars, frameVars,
                   queueVars>>

\* Some(surface_config) once every snapshot handle was visited
UpdateSurfaceSizeReturn ==
    /\ resize.pc = "for_each"
    /\ resize.todo = {}
    /\ resize' = IdleResize(resize.new_size, Some(resize.new_size))
    /\ UNCHANGED <<world, chunkVars, meshVars, keyVars, modelVars, frameVars,
                   queueVars, texture_handles, cells, creations>>

InitSpecTextures == InitSpecQueue

NextTextures ==
    \/ \E name \in HandleNames, format \in TextureFormats,
          config \in SurfaceConfigurations :
            CreateTextureHandle(name, format, config)
    \/ \E new_size \in NewSizes : UpdateSurfaceSize(new_size)
    \/ \E name \in HandleNames : ForEachHandle(name)
    \/ UpdateSurfaceSizeReturn

SpecTextures == InitSpecTextures /\ [][NextTextures]_vars

\* ------------------------------------------------------------------------
\* Properties of bake_chunk and the allocator (checked under Spec)
\* ------------------------------------------------------------------------
Overlap(a, b) == a.start < b.end /\ b.start < a.end

\* the (chunk, layer name) pairs that have a recorded range
Recorded == {e \in Chunks \X LayerNames : e[2] \in DOMAIN baked_layers[e[1]]}

RangeOf(e) == baked_layers[e[1]][e[2]]

\* C1: a bake of a chunk that runs alone, right after a completed bake of the
\* same chunk with the same inputs, leaves the allocator's free capacity
\* where the earlier bake left it (the earlier ranges are released).
C1_RebakeKeepsFreeCapacity ==
    \A i \in 1..(Len(log) - 1) :
        ( /\ log[i].ok /\ log[i + 1].ok
          /\ log[i].chunk = log[i + 1].chunk
          /\ log[i + 1].solo )
        => log[i + 1].free = log[i].free

\* C2: the ranges recorded in baked_layers of all chunks never overlap one
\* another and lie inside [0, CHUNK_ALLOCATOR_SIZE).
C2_RangesDisjointInBounds ==
    /\ \A e \in Recorded :
          /\ 0 <= RangeOf(e).start
          /\ RangeOf(e).start <= RangeOf(e).end
          /\ RangeOf(e).end <= CHUNK_ALLOCATOR_SIZE
    /\ \A e1, e2 \in Recorded : e1 # e2 => ~Overlap(RangeOf(e1), RangeOf(e2))

\* two chunks hold non-empty ranges at once, recorded by bakes that overlapped
C2_Witness ==
    /\ \E e1, e2 \in Recorded :
          /\ e1[1] # e2[1]
          /\ RangeLen(RangeOf(e1)) > 0 /\ RangeLen(RangeOf(e2)) > 0
    /\ \E i \in 1..Len(log) : log[i].ok /\ ~log[i].solo

\* C8: a bake that meets an allocation failure never completes normally: it
\* ends as a panic its caller sees, and every bake that completes has
\* recorded a granted range for every layer.
C8_AllocFailureSurfaced ==
    /\ \A i \in 1..Len(log) :
          /\ log[i].err = "exhausted" => ~log[i].ok
          /\ log[i].ok =>
                /\ DOMAIN log[i].layers = LayerNames
                /\ \A n \in LayerNames :
                      /\ log[i].layers[n].end <= CHUNK_ALLOCATOR_SIZE
                      /\ \A k \in 1..Len(free_ranges) :
                            ~Overlap(log[i].layers[n], free_ranges[k])
    /\ \A c \in Chunks :
          baked_layers[c] # EmptyMap => DOMAIN baked_layers[c] = LayerNames

\* a bake ran out of buffer after another one had completed
C8_Witness ==
    \E i, j \in 1..Len(log) :
        /\ log[i].ok
        /\ log[j].err = "exhausted" /\ ~log[j].ok

\* ------------------------------------------------------------------------
\* Properties of bake_layer (checked under SpecMesh)
\* ------------------------------------------------------------------------
MeshDone == meshPc = "done"

\* the chunk-local coordinates, in the baked chunk, of an absolute position
Local(p) ==
    <<p[1] - ChunkPosOf(meshArgs.chunk)[1] * CHUNK_WIDTH, p[2],
      p[3] - ChunkPosOf(meshArgs.chunk)[2] * CHUNK_WIDTH>>

InChunk(l) ==
    /\ l[1] \in 0..(CHUNK_WIDTH - 1)
    /\ l[2] \in 0..(CHUNK_HEIGHT - 1)
    /\ l[3] \in 0..(CHUNK_WIDTH - 1)

SectionOf(l) == l[2] \div CHUNK_SECTION_HEIGHT

InEmptySection(l) == InChunk(l) /\ world.empty[SectionOf(l)]

\* the vertices the call emitted for the voxel at chunk-local position l
VertsAt(l) ==
    SelectSeq(meshResult.vertices, LAMBDA v : <<v.x, v.y, v.z>> = l)

Opaque(state) == get_block(state) # None /\ ~get_block(state).transparent

\* the focus voxel lies in the baked chunk, in a section not reported empty,
\* is not air and passes the layer's filter: the traversal reaches its mesh
FocusMeshed ==
    /\ MeshDone
    /\ InChunk(Local(world.focus))
    /\ ~InEmptySection(Local(world.focus))
    /\ ~is_air(world.center)
    /\ filter(meshArgs.layer, world.center.key)

FocusKind == get_block(world.center).kind

\* the mapped vertices of the given faces of every element of the focus
\* voxel's model
FocusFaceVerts(faces) ==
    LET l == Local(world.focus)
        b == world.center.key.block
        m == get_block(world.center)
    IN  UNION {{mapper(FaceVerts(b, e, f)[i], l[1], l[2], l[3]) :
                    f \in m.elements[e] \cap faces, i \in 1..4} : e \in 1..Len(m.elements)}

PresentFocusVerts == FocusFaceVerts(AllFaces)

SeqToSet(seq) == {seq[i] : i \in 1..Len(seq)}

\* C3: a cube voxel whose only non-opaque neighbour is the one above gets
\* exactly the four vertices of its up face.
C3_OnlyUpFaceEmitted ==
    ( /\ FocusMeshed
      /\ get_block(world.center) # None
      /\ FocusKind = "Cube"
      /\ ~Opaque(world.nb["up"])
      /\ \A d \in AllFaces \ {"up"} : Opaque(world.nb[d]) )
    => /\ Len(VertsAt(Local(world.focus))) = 4
       /\ SeqToSet(VertsAt(Local(world.focus))) = FocusFaceVerts({"up"})

\* C4: a cube voxel with six opaque neighbours gets no vertex.
C4_FullyCulled ==
    ( /\ FocusMeshed
      /\ get_block(world.center) # None
      /\ FocusKind = "Cube"
      /\ \A d \in AllFaces : Opaque(world.nb[d]) )
    => VertsAt(Local(world.focus)) = <<>>

\* a cube voxel enclosed by six opaque neighbours was meshed, in a chunk
\* where other voxels did get vertices
C4_Witness ==
    /\ FocusMeshed
    /\ get_block(world.center) # None
    /\ FocusKind = "Cube"
    /\ \A d \in AllFaces : Opaque(world.nb[d])
    /\ meshResult.vertices # <<>>

\* C5: a complex voxel gets the vertices of every face its model has, four
\* per face, whatever its neighbours are.
C5_ComplexNeverCulled ==
    ( /\ FocusMeshed
      /\ get_block(world.center) # None
      /\ FocusKind = "Complex" )
    => /\ SeqToSet(VertsAt(Local(world.focus))) = PresentFocusVerts
       /\ Len(VertsAt(Local(world.focus))) = Cardinality(PresentFocusVerts)

\* a complex voxel with several faces, enclosed by six opaque neighbours
C5_Witness ==
    /\ FocusMeshed
    /\ world.center = State(Key0(TORCH))
    /\ \A d \in AllFaces : Opaque(world.nb[d])
    /\ Len(VertsAt(Local(world.focus))) = 12

\* C6: no vertex is emitted for a position of a section reported empty.
C6_EmptySectionEmitsNothing ==
    MeshDone =>
        \A i \in 1..Len(meshResult.vertices) :
            ~InEmptySection(<<meshResult.vertices[i].x, meshResult.vertices[i].y,
                              meshResult.vertices[i].z>>)

\* a section reported empty while get_state has blocks in it, next to a
\* section that was meshed
C6_Witness ==
    /\ MeshDone
    /\ meshArgs.layer = "all"
    /\ world.bg = State(Key0(SLAB))
    /\ \E s \in 0..(CHUNK_SECTIONS_PER - 1) : world.empty[s]
    /\ meshResult.vertices # <<>>

\* every get_state call of the run, as chunk-local coordinates
AllQueries ==
    SeqToSet(meshResult.visited) \cup {Local(q) : q \in meshResult.neighbour_queries}

\* C7 as stated: get_state is never called, by the traversal or by a
\* neighbour lookup, with a position of a section reported empty.
C7_NoQueryInEmptySection ==
    MeshDone => \A q \in AllQueries : ~InEmptySection(q)

\* C7 as amended: the traversal never reads the state of a position of a
\* section reported empty; a get_state call with such a position is the
\* up or down neighbour lookup of a voxel the traversal read in an adjacent
\* section not reported empty.
C7_TraversalSkipsEmptySections ==
    MeshDone =>
        /\ \A l \in SeqToSet(meshResult.visited) : ~InEmptySection(l)
        /\ \A q \in AllQueries :
              InEmptySection(q) =>
                 \E l \in SeqToSet(meshResult.visited) :
                    /\ q \in {Add3(l, Offset("up")), Add3(l, Offset("down"))}
                    /\ SectionOf(l) # SectionOf(q)

\* a neighbour lookup did reach into a section reported empty
C7_Witness ==
    /\ MeshDone
    /\ \E q \in AllQueries : InEmptySection(q)

\* C9: a voxel whose block index the block manager does not have does not
\* abort the run: the traversal goes on to the last position of the chunk.
C9_UnresolvedVoxelSkipped ==
    MeshDone =>
        /\ ~meshResult.panicked
        /\ meshResult.block_index >= CHUNK_VOLUME

\* ------------------------------------------------------------------------
\* Properties of BlockstateKey (checked under SpecKey)
\* ------------------------------------------------------------------------

\* the two base-65536 digits of a u32, high digit first
Digits(bits) == <<FromBits(SubSeq(bits, 17, 32)), FromBits(SubSeq(bits, 1, 16))>>

\* C10: unpacking the packed key gives the key back, and the packed value
\* is block * 65536 + augment (its base-65536 digits are block, augment).
C10_PackRoundTrip ==
    /\ keyPc # "key" => Digits(keyPacked) = <<keyIn.block, keyIn.augment>>
    /\ keyPc = "unpacked" => keyOut = keyIn

\* a key with the top bit of both fields set went through the round trip
C10_Witness ==
    /\ keyPc = "unpacked"
    /\ keyIn.block = 65535 /\ keyIn.augment = 32768

\* ------------------------------------------------------------------------
\* Model resolution claims
\* ------------------------------------------------------------------------
ModelDone == modelPc = "done"
FileOf(n) == provider[ModelPath(n)]
IsJson(n) == FileOf(n).file = "json"

\* the requested model and the ancestors its files name, nearest first; the
\* chain ends at a model without parent or at a file that cannot be read
RECURSIVE ChainFrom(_)
ChainFrom(n) ==
    IF ~IsJson(n) \/ FileOf(n).model.parent = None THEN <<n>>
    ELSE <<n>> \o ChainFrom(FileOf(n).model.parent.some)

Chain == ChainFrom(Requested[1])
ChainLoads == \A i \in 1..Len(Chain) : IsJson(Chain[i])
TexturesOf(n) == FileOf(n).model.textures
ChainDefines(k) == \E i \in 1..Len(Chain) : k \in DOMAIN TexturesOf(Chain[i])
ChainDefinesLiteral(k) ==
    /\ ChainDefines(k)
    /\ \A i \in 1..Len(Chain) :
          k \in DOMAIN TexturesOf(Chain[i]) => ~TexturesOf(Chain[i])[k].ref
ChainReferences ==
    UNION {{TexturesOf(Chain[i])[k].name :
               k \in {j \in DOMAIN TexturesOf(Chain[i]) : TexturesOf(Chain[i])[j].ref}} :
           i \in 1..Len(Chain)}

\* the requested model declares a reference that no model of the chain
\* defines: bake returns Err(UnresolvedTextureReference)
C11_UndefinedReferenceIsErr ==
    (/\ ModelDone /\ ChainLoads
     /\ \E k \in DOMAIN TexturesOf(Chain[1]) :
           /\ TexturesOf(Chain[1])[k].ref
           /\ ~ChainDefines(TexturesOf(Chain[1])[k].name))
    => (modelOut.kind = "Err" /\ modelOut.err = "UnresolvedTextureReference")

\* every reference of the chain names a variable the chain gives a texture
\* name: bake returns a model with no reference left
C11_DefinedReferenceSubstituted ==
    (/\ ModelDone /\ ChainLoads
     /\ ChainReferences # {}
     /\ \A k \in ChainReferences : ChainDefinesLiteral(k))
    => /\ modelOut.kind = "Ok"
       /\ \A k \in DOMAIN modelOut.models[1].textures :
             ~modelOut.models[1].textures[k].ref

\* C11: a texture reference that no model of the parent chain defines ends
\* bake with Err(UnresolvedTextureReference), with or without a parent
\* chain; a reference the chain defines is substituted in the returned
\* model and leaves no reference behind.
C11_UnresolvedReferenceContract ==
    C11_UndefinedReferenceIsErr /\ C11_DefinedReferenceSubstituted

\* C12: for every model file of the chain bake has to load, a missing file
\* makes bake return Err(UnresolvedResourcePath) and a malformed one makes
\* it return Err(JsonError); neither aborts the caller.
C12_ChainFileErrorsReturned ==
    ModelDone =>
       /\ FileOf(Chain[Len(Chain)]) = Missing =>
             (modelOut.kind = "Err" /\ modelOut.err = "UnresolvedResourcePath")
       /\ FileOf(Chain[Len(Chain)]) = Malformed =>
             (modelOut.kind = "Err" /\ modelOut.err = "JsonError")

\* ------------------------------------------------------------------------
\* Frame driver claims
\* ------------------------------------------------------------------------
\* `writes[i].copies` and `writes[i].renders` are the numbers of matrix
\* copies and of render calls the render thread had made when the i-th
\* setMatrix call returned; `frames[j].copy` is the copy frame j rendered.
WritesTo(id) == {i \in 1..Len(writes) : writes[i].id = id}
BeforeRender(j, id) == {i \in WritesTo(id) : writes[i].renders < j}
BeforeCopy(j, id) == {i \in WritesTo(id) : writes[i].copies < frames[j].copy}
Latest(S) == CHOOSE i \in S : \A k \in S : k <= i
HeldIn(j, id) == frames[j].registry[MatNames[id + 1]]

\* C13 as stated: a setMatrix call that completes before render is invoked
\* for a frame is the value the registry holds for that matrix during that
\* frame's render, for each of the four matrices.
C13_WriteBeforeRenderIsHeld ==
    \A j \in 1..Len(frames), id \in 0..3 :
        BeforeRender(j, id) # {} =>
            HeldIn(j, id) = writes[Latest(BeforeRender(j, id))].value

\* C13: a setMatrix call that completes before the render thread copies
\* MATRICES for a frame is the value the registry holds for that matrix
\* during that frame's render (the latest such call, for each of the four
\* matrices); a call that completes after the copy is held from the next
\* frame on.
C13_WriteBeforeCopyIsHeld ==
    \A j \in 1..Len(frames), id \in 0..3 :
        /\ BeforeCopy(j, id) # {} =>
              HeldIn(j, id) = writes[Latest(BeforeCopy(j, id))].value
        /\ BeforeCopy(j, id) = {} => HeldIn(j, id) = Zero

\* a frame rendered with the view and the terrain transformation of two
\* earlier setMatrix calls, the second made while the thread was looping
C13_Witness ==
    /\ Len(writes) >= 2 /\ Len(frames) >= 2
    /\ writes[1].id = 2 /\ writes[2].id = 3
    /\ writes[2].copies = 1
    /\ BeforeCopy(2, 2) = {1} /\ BeforeCopy(2, 3) = {2}
    /\ HeldIn(2, 2) = writes[1].value /\ HeldIn(2, 3) = writes[2].value

\* C14: every matrix value the render thread reads from the registry is,
\* as a whole, the initial value or the complete value written by one
\* setMatrix call to that matrix, never a mix of two writes.
C14_NoTornMatrix ==
    \A j \in 1..Len(frames), id \in 0..3 :
        \/ HeldIn(j, id) = Zero
        \/ \E i \in WritesTo(id) : HeldIn(j, id) = writes[i].value

\* two setMatrix calls on the projection, the second made while the render
\* thread was between its copy and its render; a later frame holds the
\* second value whole
C14_Witness ==
    /\ Len(writes) >= 2 /\ Len(frames) >= 2
    /\ writes[1].id = 0 /\ writes[2].id = 0
    /\ writes[2].copies = 1 /\ writes[2].renders = 0
    /\ HeldIn(1, 0) = writes[1].value
    /\ HeldIn(2, 0) = writes[2].value

\* C15: when get_current_texture fails the driver reconfigures the surface
\* and retries exactly once; when the retry fails too, only that frame is
\* lost and the render loop goes on to the next frame.
C15_RetryOnceThenNextFrame ==
    /\ rt.attempts <= 2
    /\ rt.pc # "panicked_retry"
    /\ rt.pc # "panicked_no_config"

\* C17: the render graph's init is called exactly once, and every render
\* call happens after that init call returned.
C17_InitOnceBeforeRender ==
    /\ initCalls <= 1
    /\ rt.pc # "unspawned" => (graph = "Initialized" /\ initCalls = 1)
    /\ \A j \in 1..Len(frames) :
          frames[j].graph = "Initialized" /\ frames[j].inits = 1

\* two frames were rendered
C17_Witness ==
    /\ Len(frames) >= 2
    /\ initCalls = 1
    /\ frames[1].graph = "Initialized"

SameValues(i, j) ==
    /\ frames[i].registry = frames[j].registry
    /\ frames[i].swaps = frames[j].swaps

\* C18 as stated: renders with no setMatrix call and no texture swap made
\* between them hold identical resource values.
C18_NoWriteBetweenRenders ==
    \A i \in 1..Len(frames), j \in 1..Len(frames) :
        (/\ i < j
         /\ frames[i].swaps = frames[j].swaps
         /\ \A k \in 1..Len(writes) : ~(writes[k].renders >= i /\ writes[k].renders < j))
        => SameValues(i, j)

\* C18: renders hold identical resource values when no setMatrix call
\* completed and no texture was swapped from the matrix copy of the first
\* of them to the invocation of the last; a call that completes between a
\* frame's copy and its render makes the next frame differ from it.
C18_NoWriteSinceCopy ==
    \A i \in 1..Len(frames), j \in 1..Len(frames) :
        (/\ i < j
         /\ frames[i].swaps = frames[j].swaps
         /\ \A k \in 1..Len(writes) :
               ~(writes[k].copies >= frames[i].copy /\ writes[k].renders < j))
        => SameValues(i, j)

\* three renders after the last of two setMatrix calls, all holding the
\* written values
C18_Witness ==
    /\ Len(frames) >= 3 /\ Len(writes) = 2
    /\ \A k \in 1..Len(writes) : writes[k].copies = 0
    /\ writes[1].id = 1 /\ writes[2].id = 3
    /\ frames[1].registry["model"] = writes[1].value
    /\ SameValues(1, 2) /\ SameValues(2, 3)

\* ------------------------------------------------------------------------
\* Chunk upload claims
\* ------------------------------------------------------------------------
Elems(seq) == {seq[i] : i \in 1..Len(seq)}
Occurrences(seq, id) == Cardinality({i \in 1..Len(seq) : seq[i].id = id})

\* the writes that are on the queue, taken by a submit_chunk_updates call,
\* or submitted by one
QueuedData ==
    {u.data : u \in Elems(chunk_update_queue) \cup Elems(gpu_flushed)
                    \cup UNION {Elems(fl[f].updates) : f \in Flushers}}

\* C16: the vertex-buffer write of every chunk bake reaches the GPU only
\* through chunk_update_queue: bake_chunk enqueues it and
\* submit_chunk_updates performs it.
C16_BakeWritesGoThroughQueue ==
    \A w \in buffer_writes : w.data \in QueuedData

OkEntries == {i \in 1..Len(log) : log[i].ok}
VertsOf(e, name) == e.emitted[name]

\* C19: after bake_chunk completes, each layer's recorded range has length
\* (vertices bake_layer emitted for the layer) x size_of(Vertex), the
\* vertex bytes were written at the range's start, and baked_layers maps
\* exactly the names of the given layers to those ranges.
C19_RangesSizedWrittenRecorded ==
    \A i \in OkEntries :
        /\ DOMAIN log[i].layers = LayerNames
        /\ DOMAIN log[i].emitted = LayerNames
        /\ \A name \in LayerNames :
              /\ RangeLen(log[i].layers[name]) =
                    Len(VertsOf(log[i], name)) * SizeOfVertex
              /\ [offset |-> log[i].layers[name].start,
                  data |-> VertsOf(log[i], name)] \in buffer_writes
        /\ (\A j \in OkEntries : j > i => log[j].chunk # log[i].chunk)
              => baked_layers[log[i].chunk] = log[i].layers

\* a bake completed whose two layers both have vertices
C19_Witness ==
    \E i \in OkEntries :
        /\ \A name \in LayerNames : RangeLen(log[i].layers[name]) > 0
        /\ baked_layers[log[i].chunk] = log[i].layers

\* C20: every write pushed onto chunk_update_queue, at any moment relative
\* to a running submit_chunk_updates, is flushed by exactly one call: none
\* is lost and none is flushed twice.  Until it is flushed the write is on
\* the queue or among the updates one call has taken.
C20_EveryPushFlushedOnce ==
    \A id \in 1..pushed :
        Occurrences(chunk_update_queue, id) + Occurrences(gpu_flushed, id)
        + Occurrences(fl["flush_thread"].updates, id)
        + Occurrences(fl["caller"].updates, id) = 1

\* the write numbered id has been handed to queue.submit
Flushed(id) == \E i \in 1..Len(gpu_flushed) : gpu_flushed[i].id = id

\* C21: under fair scheduling of the flush thread every write pushed onto
\* chunk_update_queue is eventually flushed (the flush loop never stops and
\* never blocks for ever), and a flush that finds the queue empty submits
\* nothing.
C21_EveryPushEventuallyFlushed ==
    /\ \A id \in 1..MaxPushes : (pushed >= id) ~> Flushed(id)
    /\ [][chunk_update_queue = <<>> /\ (\E f \in Flushers : TakeUpdates(f))
            => gpu_flushed' = gpu_flushed]_vars

\* ------------------------------------------------------------------------
\* Traversal claims of bake_layer (checked under SpecMesh)
\* ------------------------------------------------------------------------
AllPositions ==
    {<<x, y, z>> : x \in 0..(CHUNK_WIDTH - 1), y \in 0..(CHUNK_HEIGHT - 1),
                   z \in 0..(CHUNK_WIDTH - 1)}

\* the rank of a position when X runs fastest, then Z, then Y
Rank(l) == l[1] + CHUNK_WIDTH * l[3] + CHUNK_AREA * l[2]

StrictlyAscending(seq, rank(_)) ==
    \A i \in 1..(Len(seq) - 1) : rank(seq[i]) < rank(seq[i + 1])

SectionRank(s) == s

\* C22: bake_layer terminates for every state source and examines each
\* voxel position at most once: each position of a section reported
\* non-empty exactly once, in the order X fastest, then Z, then Y, and no
\* position of a section reported empty; is_section_empty is asked exactly
\* once per section, in ascending section order.
C22_TraversalOnceInOrder ==
    MeshDone =>
        /\ meshResult.block_index >= CHUNK_VOLUME
        /\ SeqToSet(meshResult.visited) = {l \in AllPositions : ~InEmptySection(l)}
        /\ StrictlyAscending(meshResult.visited, Rank)
        /\ SeqToSet(meshResult.asked) = 0..(CHUNK_SECTIONS_PER - 1)
        /\ StrictlyAscending(meshResult.asked, SectionRank)

\* the state the source has at a chunk-local position of the baked chunk
StateAtLocal(l) ==
    get_state(world, ChunkPosOf(meshArgs.chunk)[1] * CHUNK_WIDTH + l[1], l[2],
              ChunkPosOf(meshArgs.chunk)[2] * CHUNK_WIDTH + l[3])

\* C23: a voxel contributes vertices to a layer's stream only if it is not
\* Air and the layer's filter accepts its BlockstateKey: an Air voxel and a
\* voxel the filter rejects contribute no vertex, so of the layers baked
\* from one block grid only those whose filter accepts a voxel hold
\* vertices of it.
C23_OnlyAcceptedVoxelsEmit ==
    MeshDone =>
        \A i \in 1..Len(meshResult.vertices) :
            LET v == meshResult.vertices[i]
                s == StateAtLocal(<<v.x, v.y, v.z>>)
            IN  /\ s.tag # "Air"
                /\ filter(meshArgs.layer, s.key)

\* the cutout layer was baked from a grid of slabs around one torch: the
\* torch has its vertices and no slab has any
C23_Witness ==
    /\ MeshDone
    /\ meshArgs.layer = "cutout"
    /\ world.bg = State(Key0(SLAB))
    /\ world.center = State(Key0(TORCH))
    /\ InChunk(Local(world.focus))
    /\ Len(VertsAt(Local(world.focus))) = 12
    /\ Len(meshResult.vertices) = 12
    /\ \E l \in AllPositions : StateAtLocal(l) = Air

\* ------------------------------------------------------------------------
\* Mesh baking claims (checked under SpecBake)
\* ------------------------------------------------------------------------
BakedOk == ModelDone /\ modelOut.kind = "Ok"

\* the resolved model of the i-th variant and the chain it was resolved from
ResolvedOf(i) == modelOut.models[i]
ChainOf(i) == ChainFrom(model_properties[i])

\* the index in `chain` of the nearest model that declares texture key k,
\* and of the nearest that declares elements
NearestWithKey(chain, k) ==
    CHOOSE i \in 1..Len(chain) :
        /\ k \in DOMAIN TexturesOf(chain[i])
        /\ \A j \in 1..(i - 1) : k \notin DOMAIN TexturesOf(chain[j])
DeclaresElements(n) == FileOf(n).model.elements # None
NearestWithElements(chain) ==
    CHOOSE i \in 1..Len(chain) :
        /\ DeclaresElements(chain[i])
        /\ \A j \in 1..(i - 1) : ~DeclaresElements(chain[j])

\* C24: in the model resolved from a parent chain of any length, each
\* texture key and the element list take the value declared by the nearest
\* model of the chain that declares it: the child overrides its parent and
\* a parent overrides the grandparent.
C24_NearestDeclarationWins ==
    BakedOk =>
        \A i \in 1..Len(model_properties) :
            LET chain == ChainOf(i)
                keys == UNION {DOMAIN TexturesOf(chain[j]) : j \in 1..Len(chain)}
            IN  /\ DOMAIN ResolvedOf(i).textures = keys
                /\ \A k \in keys :
                      ResolvedOf(i).textures[k] =
                          TexturesOf(chain[NearestWithKey(chain, k)])[k]
                /\ IF \E j \in 1..Len(chain) : DeclaresElements(chain[j])
                   THEN ResolvedOf(i).elements =
                            FileOf(chain[NearestWithElements(chain)]).model.elements
                   ELSE ResolvedOf(i).elements = None

\* the elements bake made faces of, for the i-th variant
ElementsBaked(i) ==
    IF ResolvedOf(i).elements = None THEN <<>> ELSE ResolvedOf(i).elements.some

LayoutOrder == <<"south", "west", "north", "east", "up", "down">>
NormalOf(dir) ==
    CASE dir = "south" -> <<0, 0, 1>>
      [] dir = "west"  -> <<-1, 0, 0>>
      [] dir = "north" -> <<0, 0, -1>>
      [] dir = "east"  -> <<1, 0, 0>>
      [] dir = "up"    -> <<0, 1, 0>>
      [] dir = "down"  -> <<0, -1, 0>>

\* the position in modelOut.mesh of the j-th element of the i-th variant
RECURSIVE ElementsBefore(_)
ElementsBefore(i) ==
    IF i = 1 THEN 0 ELSE ElementsBefore(i - 1) + Len(ElementsBaked(i - 1))
FacesOf(i, j) == modelOut.mesh[ElementsBefore(i) + j]

\* every (variant, element) pair that was baked
BakedElements ==
    UNION {{<<i, j>> : j \in 1..Len(ElementsBaked(i))} : i \in 1..Len(model_properties)}

\* the texture of an element face has a rectangle in the atlas: the texture
\* name itself, or the name the model's textures give the variable
HasAtlasUV(texture, textures, atlas) ==
    \E n \in DOMAIN atlas.uv_map :
        \/ ~texture.ref /\ texture.name = n
        \/ /\ texture.ref /\ texture.name \in DOMAIN textures
           /\ textures[texture.name] = Lit(n)

FaceIn(faces, dir) ==
    CASE dir = "south" -> faces.south
      [] dir = "west"  -> faces.west
      [] dir = "north" -> faces.north
      [] dir = "east"  -> faces.east
      [] dir = "up"    -> faces.up
      [] dir = "down"  -> faces.down

\* the source model gives the direction a face whose texture has an atlas UV
Textured(i, j, dir) ==
    /\ dir \in DOMAIN ElementsBaked(i)[j].faces
    /\ HasAtlasUV(ElementsBaked(i)[j].faces[dir].texture,
                  ResolvedOf(i).textures, modelOut.atlases[i])

\* C26: every baked BlockModelFaces holds exactly 24 vertices, 4 per face
\* in the order south, west, north, east, up, down, so that a present
\* face's vert_index is 0, 4, 8, 12, 16, 20; a direction's Face is None
\* exactly when the source model omits the face or its texture has no atlas
\* UV, and the 4 vertex slots of an absent face are there all the same.
C26_FixedLayoutOfFaces ==
    BakedOk =>
        /\ Len(modelOut.mesh) = ElementsBefore(Len(model_properties) + 1)
        /\ \A e \in BakedElements :
              LET faces == FacesOf(e[1], e[2])
              IN  /\ Len(faces.vertices) = 24
                  /\ \A k \in 0..5 :
                        LET dir == LayoutOrder[k + 1]
                        IN  /\ \A c \in 1..4 :
                                  faces.vertices[4 * k + c].normal = NormalOf(dir)
                            /\ IF Textured(e[1], e[2], dir)
                               THEN /\ FaceIn(faces, dir) # None
                                    /\ FaceIn(faces, dir).some.vert_index = 4 * k
                               ELSE FaceIn(faces, dir) = None

\* an element was baked of which one face is textured, one names a texture
\* the atlas does not have, one a variable no model defines, and three are
\* not declared
C26_Witness ==
    /\ BakedOk
    /\ \E e \in BakedElements :
          /\ DOMAIN ElementsBaked(e[1])[e[2]].faces = {"down", "south", "east"}
          /\ FacesOf(e[1], e[2]).east # None
          /\ FacesOf(e[1], e[2]).east.some.vert_index = 12
          /\ FacesOf(e[1], e[2]).south = None
          /\ FacesOf(e[1], e[2]).down = None
          /\ Len(FacesOf(e[1], e[2]).vertices) = 24

\* the four vertices of the slots reserved for a direction
SlotVertices(faces, dir) ==
    LET k == CHOOSE n \in 0..5 : LayoutOrder[n + 1] = dir
    IN  {faces.vertices[4 * k + c] : c \in 1..4}

\* the (element, direction) pairs that have no texture assignment
Untextured ==
    {<<e, dir>> \in BakedElements \X AllFaces : ~Textured(e[1], e[2], dir)}

\* C27 as stated: the 4 reserved vertices of a face with no texture
\* assignment carry tex_coords (0,0), normal (0,0,0) and animation offset 0.
C27_PlaceholderAllZero ==
    BakedOk =>
        \A u \in Untextured :
            \A v \in SlotVertices(FacesOf(u[1][1], u[1][2]), u[2]) :
                /\ v.tex_coords = <<0, 0>>
                /\ v.normal = <<0, 0, 0>>
                /\ v.animation_uv_offset = 0

\* C27: the 4 reserved vertices of a face with no texture assignment carry
\* tex_coords (0,0) and animation offset 0 and keep the normal of the
\* face's direction; the face is marked as no face by its Face being None,
\* the -1 tint index of the placeholder being stored nowhere.
C27_PlaceholderZeroUVKeepsNormal ==
    BakedOk =>
        \A u \in Untextured :
            /\ FaceIn(FacesOf(u[1][1], u[1][2]), u[2]) = None
            /\ \A v \in SlotVertices(FacesOf(u[1][1], u[1][2]), u[2]) :
                  /\ v.tex_coords = <<0, 0>>
                  /\ v.animation_uv_offset = 0
                  /\ v.normal = NormalOf(u[2])

\* an element was baked with an undeclared south face next to a textured,
\* animated north face: the south slots are zeroed and the north slots are
\* not
C27_Witness ==
    /\ BakedOk
    /\ \E e \in BakedElements :
          /\ <<e, "south">> \in Untextured
          /\ <<e, "north">> \notin Untextured
          /\ \E v \in SlotVertices(FacesOf(e[1], e[2]), "north") :
                v.tex_coords # <<0, 0>> /\ v.animation_uv_offset = 5
          /\ \A v \in SlotVertices(FacesOf(e[1], e[2]), "south") :
                v.tex_coords = <<0, 0>> /\ v.animation_uv_offset = 0

\* ------------------------------------------------------------------------
\* Concurrent bakes of one chunk (checked under Spec)
\* ------------------------------------------------------------------------
\* the bakes of chunk c that completed, by their position in the log
OkBakesOf(c) == {i \in OkEntries : log[i].chunk = c}

\* C28: with bake_chunk calls running concurrently on one chunk, the
\* chunk's baked_layers is at every moment the complete mapping of exactly
\* one bake, the previous one (at first: none) or one of the running ones,
\* never a mix of ranges of two bakes; once the calls have returned it is
\* the mapping of the call that wrote last.
C28_BakedLayersOfOneBake ==
    \A c \in Chunks :
        IF OkBakesOf(c) = {}
        THEN baked_layers[c] = EmptyMap
        ELSE /\ baked_layers[c] = log[Latest(OkBakesOf(c))].layers
             /\ DOMAIN baked_layers[c] = LayerNames

\* two bakes of chunk 1 overlapped and both completed with ranges of their
\* own; the chunk holds the ranges of the one that wrote last
C28_Witness ==
    /\ Len(log) = 2
    /\ log[1].ok /\ log[2].ok
    /\ ~log[1].solo /\ ~log[2].solo
    /\ log[1].chunk = 1 /\ log[2].chunk = 1
    /\ \A n \in LayerNames :
          /\ RangeLen(log[1].layers[n]) > 0
          /\ log[1].layers[n] # log[2].layers[n]
    /\ baked_layers[1] = log[2].layers
    /\ \A t \in Threads : th[t].pc = "idle"

\* no free range of the allocator reaches into r
Allocated(r, free) == \A k \in 1..Len(free) : ~Overlap(r, free[k])

\* the calls that ended in a panic, by their position in the log
FailedEntries == {i \in 1..Len(log) : ~log[i].ok}

\* C29: in bake_chunk each layer's range is allocated before its vertex
\* bytes are written, and the new mapping is installed in baked_layers only
\* after every layer has been allocated and written; when the allocation of
\* layer k fails, the call leaves baked_layers as it is and the ranges
\* allocated for the layers before k stay allocated.
C29_AllocateWriteThenInstall ==
    /\ [][ /\ buffer_writes' # buffer_writes =>
                \E t \in Threads :
                    /\ th[t].pc = "write"
                    /\ Allocated(th[t].range, free_ranges)
                    /\ RangeLen(th[t].range) = Len(th[t].verts) * SizeOfVertex
                    /\ buffer_writes' = buffer_writes \cup
                          {[offset |-> th[t].range.start, data |-> th[t].verts]}
           /\ baked_layers' # baked_layers =>
                \E t \in Threads :
                    /\ th[t].pc = "install"
                    /\ baked_layers' = [baked_layers EXCEPT ![th[t].chunk] = th[t].acc]
                    /\ DOMAIN th[t].acc = LayerNames
                    /\ \A n \in LayerNames :
                          /\ Allocated(th[t].acc[n], free_ranges)
                          /\ [offset |-> th[t].acc[n].start,
                              data |-> th[t].emitted[n]] \in buffer_writes
           /\ (Len(log') > Len(log) /\ ~log'[Len(log')].ok) =>
                /\ baked_layers' = baked_layers
                /\ free_ranges' = free_ranges
         ]_vars
    /\ [](\A i \in FailedEntries :
             \A n \in DOMAIN log[i].layers : Allocated(log[i].layers[n], free_ranges))

\* the allocation of the second layer failed in a call that had a range
\* for the first: the chunk has no mapping and that range is not free
C29_Witness ==
    \E i \in FailedEntries :
        /\ log[i].err = "exhausted"
        /\ DOMAIN log[i].layers = {Layers[1]}
        /\ RangeLen(log[i].layers[Layers[1]]) > 0
        /\ Allocated(log[i].layers[Layers[1]], free_ranges)
        /\ baked_layers[log[i].chunk] = EmptyMap

\* ------------------------------------------------------------------------
\* Properties of texture_handles (checked under SpecTextures)
\* ------------------------------------------------------------------------
\* the create_texture_handle calls made for name, oldest first
CreationsOf(name) == SelectSeq(creations, LAMBDA c : c.name = name)

ZeroSized(new_size) == new_size.width = 0 \/ new_size.height = 0

\* C30: the names of texture_handles only grow and a name keeps the cell it
\* was first registered with, which always holds the texture of the latest
\* create_texture_handle call for that name; update_surface_size with a zero
\* width or height returns None and changes neither texture_handles nor the
\* texture of any cell.
C30_HandlesKeepTheirCell ==
    /\ [][/\ \A n \in DOMAIN texture_handles :
                /\ n \in DOMAIN texture_handles'
                /\ texture_handles'[n] = texture_handles[n]
           /\ \A new_size \in NewSizes :
                (ZeroSized(new_size) /\ UpdateSurfaceSize(new_size))
                    => /\ resize'.pc = "idle"
                       /\ resize'.result = None
                       /\ texture_handles' = texture_handles
                       /\ cells' = cells]_vars
    /\ [](/\ DOMAIN texture_handles = {creations[i].name : i \in 1..Len(creations)}
          /\ \A n \in DOMAIN texture_handles :
                LET made == CreationsOf(n)
                IN  /\ texture_handles[n] = made[1].handle
                    /\ cells[texture_handles[n]] = made[Len(made)].texture)

\* C30 witness: a name registered by a caller and created again by a resize
\* still has its first cell, which holds the resized texture, and a later
\* update_surface_size with a zero dimension has returned None.
C30_Witness ==
    /\ resize.pc = "idle"
    /\ ZeroSized(resize.new_size)
    /\ resize.result = None
    /\ \E n \in DOMAIN texture_handles :
         LET made == CreationsOf(n)
         IN  /\ Len(made) >= 2
             /\ made[1].by = "caller"
             /\ made[Len(made)].by = "update_surface_size"
             /\ texture_handles[n] = made[1].handle
             /\ cells[texture_handles[n]].id = made[Len(made)].handle
             /\ cells[texture_handles[n]].width > 1

====
